---------------------------- MODULE Spec2Model ----------------------------
(***************************************************************************)
(* super-glue: the chained hash table (lib/hash_table.c), the doubly       *)
(* linked list it is built on (lib/linked_list.c), and the command line    *)
(* parsing of the program (src/process_args.c, called from src/main.c).    *)
(*                                                                         *)
(* Pointers are modelled as addresses: a list owns a heap `node` mapping   *)
(* the address of every live node to its fields; NULL is address 0.        *)
(* A C function becomes an operator from its arguments to a record holding *)
(* the objects it changed, its return value `ret` and its out-parameters.  *)
(***************************************************************************)
EXTENDS Integers, Sequences, FiniteSets, TLC

VARIABLES
  theList,    \* the LinkedList under test (struct _ll and its nodes)
  theCursor,  \* the caller's LLIterator* on theList (NULL_ITER: none)
  listRet,    \* what the last list call returned
  table,      \* the HashTable (struct _HT, its buckets and their entries)
  tableIter,  \* the caller's HTIterator* on table (NULL_HTI: none)
  ret,        \* what the last table call returned
  undef,      \* the process dereferenced freed or wild memory
  proc        \* super-glue's main: its locals and where process_args stands

vars == <<theList, theCursor, listRet, table, tableIter, ret, undef, proc>>

\* what a table call leaves alone, what a list call leaves alone, and what
\* main leaves alone
llvars == <<theList, theCursor, listRet, proc>>
htvars == <<table, tableIter, ret, undef, proc>>
libvars == <<theList, theCursor, listRet, table, tableIter, ret, undef>>

-----------------------------------------------------------------------------
(* Bounds of the model. *)

\* payloads / values are 1..MaxVal
MaxVal == 2

\* the standalone list holds at most MaxLen nodes
MaxLen == 3

\* the callers use the first NumKeys keys of KeyPool
NumKeys == 3

\* by how many entries failed allocations may leave the count ahead
MaxLost == 1

\* the command line has at most MaxArgs arguments after the program's name
MaxArgs == 3

-----------------------------------------------------------------------------
(* Unsigned 8-bit and 64-bit arithmetic.  A Hash64 is its 8 bytes, least   *)
(* significant first, so that no intermediate exceeds 32 bits.             *)

NULL == 0

RECURSIVE XorBits(_, _, _)
XorBits(a, b, n) ==
  IF n = 0 THEN 0
  ELSE (((a % 2) + (b % 2)) % 2) + (2 * XorBits(a \div 2, b \div 2, n - 1))

\* hash ^= *current : the byte is zero-extended, only the low byte changes
Xor64Byte(h, byte) == [h EXCEPT ![1] = XorBits(h[1], byte, 8)]

RECURSIVE ColSum(_, _, _, _)
ColSum(a, b, i, j) ==
  IF j > i THEN 0 ELSE (a[j] * b[i + 1 - j]) + ColSum(a, b, i, j + 1)

RECURSIVE MulLimbs(_, _, _, _)
MulLimbs(a, b, i, carry) ==
  IF i > 8 THEN <<>>
  ELSE LET s == ColSum(a, b, i, 1) + carry
       IN  <<s % 256>> \o MulLimbs(a, b, i + 1, s \div 256)

\* hash *= FNV_PRIME : the product modulo 2^64
Mul64(a, b) == MulLimbs(a, b, 1, 0)

RECURSIVE ModLimbs(_, _, _, _)
ModLimbs(h, n, i, r) ==
  IF i = 0 THEN r ELSE ModLimbs(h, n, i - 1, ((r * 256) + h[i]) % n)

\* (hash) % n for a 64-bit hash and a positive int n
Mod64(h, n) == ModLimbs(h, n, 8, 0)

-----------------------------------------------------------------------------
(* lib/linked_list.c *)

NULL_LIST == [null |-> TRUE]
NULL_ITER == [null |-> TRUE]

\* malloc(sizeof(LLNode)): an address no live node of the list has.  Which
\* free address is returned is immaterial; the lowest is taken.
MallocNode(list) ==
  CHOOSE n \in 1..(Cardinality(DOMAIN list.node) + 1) :
    /\ n \notin DOMAIN list.node
    /\ \A m \in 1..(n - 1) : m \in DOMAIN list.node

\* free(node)
FreeNode(node, n) == [m \in DOMAIN node \ {n} |-> node[m]]

LinkedList_allocate ==
  [head |-> NULL, tail |-> NULL, num_elems |-> 0, node |-> <<>>]

LinkedList_num_elements(list) ==
  IF list = NULL_LIST THEN -1 ELSE list.num_elems

\* LinkedList_prepend with `list->head = new` inside the empty-list branch
LinkedList_prepend_KeepsHead(list, payload) ==
  IF list = NULL_LIST THEN [list |-> list, ret |-> FALSE]
  ELSE
    LET new == MallocNode(list)
        n1  == (new :> [next |-> list.head, prev |-> NULL, payload |-> payload])
                 @@ list.node
        n2  == IF list.num_elems = 0 THEN n1
               ELSE [n1 EXCEPT ![list.head].prev = new]
    IN  [list |-> [head      |-> IF list.num_elems = 0 THEN new ELSE list.head,
                   tail      |-> IF list.num_elems = 0 THEN new ELSE list.tail,
                   num_elems |-> list.num_elems + 1,
                   node      |-> n2],
         ret  |-> TRUE]

LinkedList_prepend(list, payload) ==
  IF list = NULL_LIST THEN [list |-> list, ret |-> FALSE]
  ELSE
    LET new == MallocNode(list)
        n1  == (new :> [next |-> list.head, prev |-> NULL, payload |-> payload])
                 @@ list.node
        n2  == IF list.num_elems = 0 THEN n1
               ELSE [n1 EXCEPT ![list.head].prev = new]
    IN  [list |-> [head      |-> new,
                   tail      |-> IF list.num_elems = 0 THEN new ELSE list.tail,
                   num_elems |-> list.num_elems + 1,
                   node      |-> n2],
         ret  |-> TRUE]

\* LinkedList_append without `new->prev = list->tail`
LinkedList_append_NoPrev(list, payload) ==
  IF list = NULL_LIST THEN [list |-> list, ret |-> FALSE]
  ELSE
    LET new == MallocNode(list)
        n1  == (new :> [next |-> NULL, prev |-> NULL, payload |-> payload])
                 @@ list.node
        n2  == IF list.num_elems = 0 THEN n1
               ELSE [n1 EXCEPT ![list.tail].next = new]
    IN  [list |-> [head      |-> IF list.num_elems = 0 THEN new ELSE list.head,
                   tail      |-> new,
                   num_elems |-> list.num_elems + 1,
                   node      |-> n2],
         ret  |-> TRUE]

\* LinkedList_append without `list->num_elems++`
LinkedList_append_NoIncrement(list, payload) ==
  IF list = NULL_LIST THEN [list |-> list, ret |-> FALSE]
  ELSE
    LET new == MallocNode(list)
        n1  == (new :> [next |-> NULL, prev |-> list.tail, payload |-> payload])
                 @@ list.node
        n2  == IF list.num_elems = 0 THEN n1
               ELSE [n1 EXCEPT ![list.tail].next = new]
    IN  [list |-> [head      |-> IF list.num_elems = 0 THEN new ELSE list.head,
                   tail      |-> new,
                   num_elems |-> list.num_elems,
                   node      |-> n2],
         ret  |-> TRUE]

LinkedList_append(list, payload) ==
  IF list = NULL_LIST THEN [list |-> list, ret |-> FALSE]
  ELSE
    LET new == MallocNode(list)
        n1  == (new :> [next |-> NULL, prev |-> list.tail, payload |-> payload])
                 @@ list.node
        n2  == IF list.num_elems = 0 THEN n1
               ELSE [n1 EXCEPT ![list.tail].next = new]
    IN  [list |-> [head      |-> IF list.num_elems = 0 THEN new ELSE list.head,
                   tail      |-> new,
                   num_elems |-> list.num_elems + 1,
                   node      |-> n2],
         ret  |-> TRUE]

\* LinkedList_pop_head without `list->num_elems--`
LinkedList_pop_head_NoDecrement(list, payload_out) ==
  IF list = NULL_LIST \/ ~payload_out THEN
    [list |-> list, ret |-> FALSE, wrote |-> FALSE]
  ELSE IF list.num_elems = 0 THEN
    [list |-> list, ret |-> FALSE, wrote |-> FALSE]
  ELSE
    LET to_pop == list.head
        l1 == IF list.num_elems # 1
              THEN LET h == list.node[list.head].next
                   IN  [list EXCEPT !.head = h, !.node[h].prev = NULL]
              ELSE [list EXCEPT !.head = NULL, !.tail = NULL]
    IN  [list  |-> [l1 EXCEPT !.node = FreeNode(l1.node, to_pop)],
         ret   |-> TRUE,
         wrote |-> TRUE,
         out   |-> list.node[to_pop].payload]

\* LinkedList_pop_head storing the tail's payload
LinkedList_pop_head_ReportsTail(list, payload_out) ==
  IF list = NULL_LIST \/ ~payload_out THEN
    [list |-> list, ret |-> FALSE, wrote |-> FALSE]
  ELSE IF list.num_elems = 0 THEN
    [list |-> list, ret |-> FALSE, wrote |-> FALSE]
  ELSE
    LET to_pop == list.head
        l1 == IF list.num_elems # 1
              THEN LET h == list.node[list.head].next
                   IN  [list EXCEPT !.head = h, !.node[h].prev = NULL]
              ELSE [list EXCEPT !.head = NULL, !.tail = NULL]
    IN  [list  |-> [l1 EXCEPT !.node = FreeNode(l1.node, to_pop),
                              !.num_elems = list.num_elems - 1],
         ret   |-> TRUE,
         wrote |-> TRUE,
         out   |-> list.node[list.tail].payload]

\* payload_out: TRUE when the caller passes an output slot, FALSE for NULL.
\* `wrote` tells whether *payload_out was assigned, `out` what was assigned.
LinkedList_pop_head(list, payload_out) ==
  IF list = NULL_LIST \/ ~payload_out THEN
    [list |-> list, ret |-> FALSE, wrote |-> FALSE]
  ELSE IF list.num_elems = 0 THEN
    [list |-> list, ret |-> FALSE, wrote |-> FALSE]
  ELSE
    LET to_pop == list.head
        l1 == IF list.num_elems # 1
              THEN LET h == list.node[list.head].next
                   IN  [list EXCEPT !.head = h, !.node[h].prev = NULL]
              ELSE [list EXCEPT !.head = NULL, !.tail = NULL]
    IN  [list  |-> [l1 EXCEPT !.node = FreeNode(l1.node, to_pop),
                              !.num_elems = list.num_elems - 1],
         ret   |-> TRUE,
         wrote |-> TRUE,
         out   |-> list.node[to_pop].payload]

\* LinkedList_pop_tail returning true from the empty list
LinkedList_pop_tail_EmptyReturnsTrue(list, payload_out) ==
  IF list = NULL_LIST \/ ~payload_out THEN
    [list |-> list, ret |-> FALSE, wrote |-> FALSE]
  ELSE IF list.num_elems = 0 THEN
    [list |-> list, ret |-> TRUE, wrote |-> FALSE]
  ELSE
    LET to_pop == list.tail
        l1 == IF list.num_elems # 1
              THEN LET t == list.node[list.tail].prev
                   IN  [list EXCEPT !.tail = t, !.node[t].next = NULL]
              ELSE [list EXCEPT !.tail = NULL, !.head = NULL]
    IN  [list  |-> [l1 EXCEPT !.node = FreeNode(l1.node, to_pop),
                              !.num_elems = list.num_elems - 1],
         ret   |-> TRUE,
         wrote |-> TRUE,
         out   |-> list.node[to_pop].payload]

LinkedList_pop_tail(list, payload_out) ==
  IF list = NULL_LIST \/ ~payload_out THEN
    [list |-> list, ret |-> FALSE, wrote |-> FALSE]
  ELSE IF list.num_elems = 0 THEN
    [list |-> list, ret |-> FALSE, wrote |-> FALSE]
  ELSE
    LET to_pop == list.tail
        l1 == IF list.num_elems # 1
              THEN LET t == list.node[list.tail].prev
                   IN  [list EXCEPT !.tail = t, !.node[t].next = NULL]
              ELSE [list EXCEPT !.tail = NULL, !.head = NULL]
    IN  [list  |-> [l1 EXCEPT !.node = FreeNode(l1.node, to_pop),
                              !.num_elems = list.num_elems - 1],
         ret   |-> TRUE,
         wrote |-> TRUE,
         out   |-> list.node[to_pop].payload]

\* LLIterator_allocate starting the cursor on the tail
LLIterator_allocate_AtTail(listref, list) ==
  IF list = NULL_LIST THEN NULL_ITER
  ELSE [list |-> listref, current |-> list.tail]

\* listref names the list the cursor is bound to (lli->list); `list` is that
\* list's contents.
LLIterator_allocate(listref, list) ==
  IF list = NULL_LIST THEN NULL_ITER
  ELSE [list |-> listref, current |-> list.head]

LLIterator_is_valid(lli) ==
  IF lli = NULL_ITER THEN FALSE ELSE lli.current # NULL

\* the address of the current payload slot (the node's), or NULL
LLIterator_get(lli) ==
  IF lli = NULL_ITER \/ lli.current = NULL THEN NULL ELSE lli.current

\* LLIterator_remove leaving the cursor on the removed tail's successor
\* (none) instead of the list's new tail
LLIterator_remove_TailToNext(lli, list, payload_out) ==
  IF lli = NULL_ITER \/ ~payload_out \/ lli.current = NULL THEN
    [lli |-> lli, list |-> list, ret |-> FALSE, wrote |-> FALSE]
  ELSE IF lli.current = list.head THEN
    LET r == LinkedList_pop_head(list, payload_out)
    IN  [lli   |-> [lli EXCEPT !.current = r.list.head],
         list  |-> r.list, ret |-> TRUE, wrote |-> r.wrote, out |-> r.out]
  ELSE IF lli.current = list.tail THEN
    LET r == LinkedList_pop_tail(list, payload_out)
    IN  [lli   |-> [lli EXCEPT !.current = list.node[list.tail].next],
         list  |-> r.list, ret |-> TRUE, wrote |-> r.wrote, out |-> r.out]
  ELSE
    LET to_remove == lli.current
        p  == list.node[to_remove].prev
        n  == list.node[to_remove].next
        n1 == [list.node EXCEPT ![p].next = n, ![n].prev = p]
    IN  [lli   |-> [lli EXCEPT !.current = n],
         list  |-> [list EXCEPT !.node = FreeNode(n1, to_remove),
                                !.num_elems = list.num_elems - 1],
         ret   |-> TRUE,
         wrote |-> TRUE,
         out   |-> list.node[to_remove].payload]

\* LLIterator_remove without the `lli->current == NULL` test: the invalid
\* cursor of an empty list equals list->head, so the head branch is taken
\* and true returned
LLIterator_remove_NoValidCheck(lli, list, payload_out) ==
  IF lli = NULL_ITER \/ ~payload_out THEN
    [lli |-> lli, list |-> list, ret |-> FALSE, wrote |-> FALSE]
  ELSE IF lli.current = NULL THEN
    [lli |-> lli, list |-> list, ret |-> list.head = NULL, wrote |-> FALSE]
  ELSE IF lli.current = list.head THEN
    LET r == LinkedList_pop_head(list, payload_out)
    IN  [lli   |-> [lli EXCEPT !.current = r.list.head],
         list  |-> r.list, ret |-> TRUE, wrote |-> r.wrote, out |-> r.out]
  ELSE IF lli.current = list.tail THEN
    LET r == LinkedList_pop_tail(list, payload_out)
    IN  [lli   |-> [lli EXCEPT !.current = r.list.tail],
         list  |-> r.list, ret |-> TRUE, wrote |-> r.wrote, out |-> r.out]
  ELSE
    LET to_remove == lli.current
        p  == list.node[to_remove].prev
        n  == list.node[to_remove].next
        n1 == [list.node EXCEPT ![p].next = n, ![n].prev = p]
    IN  [lli   |-> [lli EXCEPT !.current = n],
         list  |-> [list EXCEPT !.node = FreeNode(n1, to_remove),
                                !.num_elems = list.num_elems - 1],
         ret   |-> TRUE,
         wrote |-> TRUE,
         out   |-> list.node[to_remove].payload]

LLIterator_remove(lli, list, payload_out) ==
  IF lli = NULL_ITER \/ ~payload_out \/ lli.current = NULL THEN
    [lli |-> lli, list |-> list, ret |-> FALSE, wrote |-> FALSE]
  ELSE IF lli.current = list.head THEN
    LET r == LinkedList_pop_head(list, payload_out)
    IN  [lli   |-> [lli EXCEPT !.current = r.list.head],
         list  |-> r.list, ret |-> TRUE, wrote |-> r.wrote, out |-> r.out]
  ELSE IF lli.current = list.tail THEN
    LET r == LinkedList_pop_tail(list, payload_out)
    IN  [lli   |-> [lli EXCEPT !.current = r.list.tail],
         list  |-> r.list, ret |-> TRUE, wrote |-> r.wrote, out |-> r.out]
  ELSE
    LET to_remove == lli.current
        p  == list.node[to_remove].prev
        n  == list.node[to_remove].next
        n1 == [list.node EXCEPT ![p].next = n, ![n].prev = p]
    IN  [lli   |-> [lli EXCEPT !.current = n],
         list  |-> [list EXCEPT !.node = FreeNode(n1, to_remove),
                                !.num_elems = list.num_elems - 1],
         ret   |-> TRUE,
         wrote |-> TRUE,
         out   |-> list.node[to_remove].payload]

\* LLIterator_next keeping the cursor on the tail when there is no successor
LLIterator_next_StaysOnTail(lli, list) ==
  IF lli = NULL_ITER \/ lli.current = NULL THEN [lli |-> lli, ret |-> FALSE]
  ELSE LET c == list.node[lli.current].next
       IN  IF c = NULL THEN [lli |-> lli, ret |-> FALSE]
           ELSE [lli |-> [lli EXCEPT !.current = c], ret |-> TRUE]

LLIterator_next(lli, list) ==
  IF lli = NULL_ITER \/ lli.current = NULL THEN [lli |-> lli, ret |-> FALSE]
  ELSE LET c == list.node[lli.current].next
       IN  [lli |-> [lli EXCEPT !.current = c], ret |-> c # NULL]

LLIterator_prev(lli, list) ==
  IF lli = NULL_ITER \/ lli.current = NULL THEN [lli |-> lli, ret |-> FALSE]
  ELSE LET c == list.node[lli.current].prev
       IN  [lli |-> [lli EXCEPT !.current = c], ret |-> c # NULL]

\* LLIterator_rewind refusing an invalid cursor as next and prev do
LLIterator_rewind_NeedsValid(lli, list) ==
  IF lli = NULL_ITER \/ lli.current = NULL THEN [lli |-> lli, ret |-> FALSE]
  ELSE [lli |-> [lli EXCEPT !.current = list.head], ret |-> TRUE]

LLIterator_rewind(lli, list) ==
  IF lli = NULL_ITER \/ list.num_elems = 0 THEN [lli |-> lli, ret |-> FALSE]
  ELSE [lli |-> [lli EXCEPT !.current = list.head], ret |-> TRUE]

LLIterator_fast_forward(lli, list) ==
  IF lli = NULL_ITER \/ list.num_elems = 0 THEN [lli |-> lli, ret |-> FALSE]
  ELSE [lli |-> [lli EXCEPT !.current = list.tail], ret |-> TRUE]

\* The loop of LinkedList_eq in test_linked_list.c, on one list: while
\* LLIterator_is_valid holds, read the payload with LLIterator_get and call
\* LLIterator_next; `seen` is what was read, at most `fuel` rounds are run.
RECURSIVE ForwardLoop(_, _, _, _)
ForwardLoop(lli, list, seen, fuel) ==
  IF ~LLIterator_is_valid(lli) \/ fuel = 0 THEN seen
  ELSE ForwardLoop(LLIterator_next(lli, list).lli, list,
                   Append(seen, list.node[LLIterator_get(lli)].payload),
                   fuel - 1)

forward_iteration(list) ==
  ForwardLoop(LLIterator_allocate("theList", list), list, <<>>,
              Cardinality(DOMAIN list.node) + 1)

-----------------------------------------------------------------------------
(* lib/hash_table.c *)

NULL_PTR == [null |-> TRUE]
NULL_HT  == [null |-> TRUE]
NULL_HTI == [null |-> TRUE]

\* the value of a field that was never assigned
INDETERMINATE == [indeterminate |-> TRUE]

DEFAULT_BUCKETS == 8

\* 0x00000100000001B3 and 0xcbf29ce484222325, least significant byte first
FNV_PRIME == <<179, 1, 0, 0, 0, 1, 0, 0>>
FNV_INIT  == <<37, 35, 34, 132, 228, 156, 242, 203>>

\* A key argument is a pointer [mem |-> bytes readable from it on] or NULL_PTR.
RECURSIVE ScanTerminator(_, _)
ScanTerminator(mem, n) ==
  IF mem[n + 1] = 0 THEN n ELSE ScanTerminator(mem, n + 1)

\* get_true_key_len taking key_len 0 as a length like any other
get_true_key_len_NoSentinel(key, key_len) == key_len

get_true_key_len(key, key_len) ==
  IF key_len = 0 THEN ScanTerminator(key.mem, 0) ELSE key_len

\* FNV-1 in place of FNV-1a: multiply first, then xor
RECURSIVE FNVLoop_MultiplyFirst(_, _, _, _)
FNVLoop_MultiplyFirst(hash, data, current, data_len) ==
  IF current > data_len THEN hash
  ELSE FNVLoop_MultiplyFirst(Xor64Byte(Mul64(hash, FNV_PRIME), data[current]),
                             data, current + 1, data_len)

RECURSIVE FNVLoop(_, _, _, _)
FNVLoop(hash, data, current, data_len) ==
  IF current > data_len THEN hash
  ELSE FNVLoop(Mul64(Xor64Byte(hash, data[current]), FNV_PRIME),
               data, current + 1, data_len)

\* "", "h", "hb", "e", "p": "" hashes to bucket 5, "h", "hb" and "p" to the
\* last bucket 7, "e" to the first bucket 0
KeyPool ==
  << <<>>, <<104>>, <<104, 98>>, <<101>>, <<112>> >>

\* every byte string the model hashes: the prefixes of the callers' keys and
\* one string that is no key
HashDomain ==
  UNION {{SubSeq(KeyPool[i], 1, n) : n \in 0..Len(KeyPool[i])} :
           i \in 1..Len(KeyPool)} \cup {<<255>>}

\* FNV1a_64bit is pure: its loop is run once for each string of HashDomain
\* and the result looked up afterwards
FNVTable == [d \in HashDomain |-> FNVLoop(FNV_INIT, d, 1, Len(d))]

FNV1a_64bit(data, data_len) == FNVTable[SubSeq(data, 1, data_len)]

\* memcmp's result taken as "equal" when it is nonzero
MemEq_Nonzero(a, b, n) == \E i \in 1..n : a[i] # b[i]

\* memcmp(a, b, n) == 0
MemEq(a, b, n) == \A i \in 1..n : a[i] = b[i]

\* advance_to_target as built with COLLISION_RESIST 0: the hash decides
RECURSIVE advance_to_target_HashOnly(_, _, _, _, _)
advance_to_target_HashOnly(iter, list, hash, key, key_len) ==
  IF iter = NULL_ITER \/ key = NULL_PTR THEN [iter |-> iter, ret |-> FALSE]
  ELSE IF ~LLIterator_is_valid(iter) THEN [iter |-> iter, ret |-> FALSE]
  ELSE
    LET current == list.node[LLIterator_get(iter)].payload
    IN  IF current.hash = hash
        THEN [iter |-> iter, ret |-> TRUE]
        ELSE advance_to_target_HashOnly(LLIterator_next(iter, list).lli, list,
                                        hash, key, key_len)

\* advance_to_target with an `if` for its `while`: only the entry the
\* iterator starts on is compared
advance_to_target_HeadOnly(iter, list, hash, key, key_len) ==
  IF iter = NULL_ITER \/ key = NULL_PTR THEN [iter |-> iter, ret |-> FALSE]
  ELSE IF ~LLIterator_is_valid(iter) THEN [iter |-> iter, ret |-> FALSE]
  ELSE
    LET current == list.node[LLIterator_get(iter)].payload
    IN  [iter |-> iter,
         ret  |-> /\ current.hash = hash
                  /\ current.key_len = key_len
                  /\ MemEq(current.key, key.mem, key_len)]

\* advance_to_target reporting the match but leaving the caller's iterator
\* where it started
RECURSIVE advance_to_target_KeepsStart(_, _, _, _, _)
advance_to_target_KeepsStart(iter, list, hash, key, key_len) ==
  IF iter = NULL_ITER \/ key = NULL_PTR THEN [iter |-> iter, ret |-> FALSE]
  ELSE IF ~LLIterator_is_valid(iter) THEN [iter |-> iter, ret |-> FALSE]
  ELSE
    LET current == list.node[LLIterator_get(iter)].payload
    IN  IF /\ current.hash = hash
           /\ current.key_len = key_len
           /\ MemEq(current.key, key.mem, key_len)
        THEN [iter |-> iter, ret |-> TRUE]
        ELSE [iter |-> iter,
              ret  |-> advance_to_target_KeepsStart(
                         LLIterator_next(iter, list).lli, list, hash, key,
                         key_len).ret]

\* COLLISION_RESIST is 1.  `list` is the list iter is bound to.
RECURSIVE advance_to_target(_, _, _, _, _)
advance_to_target(iter, list, hash, key, key_len) ==
  IF iter = NULL_ITER \/ key = NULL_PTR THEN [iter |-> iter, ret |-> FALSE]
  ELSE IF ~LLIterator_is_valid(iter) THEN [iter |-> iter, ret |-> FALSE]
  ELSE
    LET current == list.node[LLIterator_get(iter)].payload
    IN  IF /\ current.hash = hash
           /\ current.key_len = key_len
           /\ MemEq(current.key, key.mem, key_len)
        THEN [iter |-> iter, ret |-> TRUE]
        ELSE advance_to_target(LLIterator_next(iter, list).lli, list,
                               hash, key, key_len)

\* bucket_idx_by_hash reducing by one less than the number of buckets
bucket_idx_by_hash_OffByOne(ht, hash) == Mod64(hash, ht.num_buckets - 1)

bucket_idx_by_hash(ht, hash) == Mod64(hash, ht.num_buckets)

HashTable_allocate ==
  [buckets     |-> [i \in 0..(DEFAULT_BUCKETS - 1) |-> LinkedList_allocate],
   num_buckets |-> DEFAULT_BUCKETS,
   num_elems   |-> 0]

\* The heap blocks an entry is made of: the list node that carries it, the
\* HTEntry and the copy of the key bytes, named by the entry's bucket and
\* the address of its node; the other blocks of a table are its bucket
\* lists, the bucket array and the table itself.
Block(kind, bucket, node) == [kind |-> kind, bucket |-> bucket, node |-> node]

BlocksOf(bucket, node) ==
  {Block(kind, bucket, node) : kind \in {"node", "entry", "key"}}

\* The teardown of one entry.  `value_free` tells whether the caller gave a
\* destructor; `disposed` lists the destructor's calls, `freed` the blocks
\* passed to free.
HTEntry_free(entry, value_free, bucket, node) ==
  [disposed |-> IF value_free
                THEN <<[key |-> entry.key, value |-> entry.value]>>
                ELSE <<>>,
   freed    |-> {Block("key", bucket, node), Block("entry", bucket, node)}]

\* the while loop of LinkedList_free, from node curr on; the payload
\* destructor is HTEntry_free
RECURSIVE LinkedList_free_loop(_, _, _, _)
LinkedList_free_loop(list, curr, bucket, value_free) ==
  IF curr = NULL THEN [disposed |-> <<>>, freed |-> {}]
  ELSE
    LET payload == HTEntry_free(list.node[curr].payload, value_free, bucket,
                                curr)
        next    == list.node[curr].next
        rest    == LinkedList_free_loop(list, next, bucket, value_free)
    IN  [disposed |-> payload.disposed \o rest.disposed,
         freed    |-> payload.freed \cup {Block("node", bucket, curr)}
                        \cup rest.freed]

\* LinkedList_free keeping every node but the head
LinkedList_free_HeadOnly(list, bucket, value_free) ==
  IF list.head = NULL THEN
    [disposed |-> <<>>, freed |-> {Block("list", bucket, NULL)}]
  ELSE
    LET payload == HTEntry_free(list.node[list.head].payload, value_free,
                                bucket, list.head)
    IN  [disposed |-> payload.disposed,
         freed    |-> payload.freed
                        \cup {Block("node", bucket, list.head),
                              Block("list", bucket, NULL)}]

LinkedList_free(list, bucket, value_free) ==
  LET walk == LinkedList_free_loop(list, list.head, bucket, value_free)
  IN  [disposed |-> walk.disposed,
       freed    |-> walk.freed \cup {Block("list", bucket, NULL)}]

\* the for loop of HashTable_free, from bucket i on
RECURSIVE HashTable_free_loop(_, _, _)
HashTable_free_loop(ht, i, value_free) ==
  IF ~(i < ht.num_buckets) THEN [disposed |-> <<>>, freed |-> {}]
  ELSE
    LET bucket == LinkedList_free(ht.buckets[i], i, value_free)
        rest   == HashTable_free_loop(ht, i + 1, value_free)
    IN  [disposed |-> bucket.disposed \o rest.disposed,
         freed    |-> bucket.freed \cup rest.freed]

HashTable_free(ht, value_free) ==
  IF ht = NULL_HT THEN [disposed |-> <<>>, freed |-> {}]
  ELSE
    LET loop == HashTable_free_loop(ht, 0, value_free)
    IN  [disposed |-> loop.disposed,
         freed    |-> loop.freed \cup {Block("buckets", NULL, NULL),
                                       Block("table", NULL, NULL)}]

\* HashTable_num_elements counting the null table as an empty one
HashTable_num_elements_NullIsEmpty(ht) ==
  IF ht = NULL_HT THEN 0 ELSE ht.num_elems

HashTable_num_elements(ht) == IF ht = NULL_HT THEN -1 ELSE ht.num_elems

\* HashTable_insert keeping the key_len argument, not the true length
HashTable_insert_KeepsKeyLen(ht, key, key_len, new_value, old_value) ==
  IF ht = NULL_HT \/ key = NULL_PTR THEN
    [ht |-> ht, ret |-> FALSE, wrote |-> FALSE]
  ELSE
    LET true_key_len == get_true_key_len(key, key_len)
        hash         == FNV1a_64bit(key.mem, true_key_len)
        new_entry    == [hash |-> hash, key |-> SubSeq(key.mem, 1, key_len),
                         key_len |-> key_len, value |-> new_value]
        idx          == bucket_idx_by_hash(ht, hash)
        bucket2      == LinkedList_prepend(ht.buckets[idx], new_entry).list
    IN  [ht |-> [ht EXCEPT !.buckets[idx] = bucket2,
                           !.num_elems = @ + 1],
         ret |-> FALSE, wrote |-> FALSE]

\* HashTable_insert with `ht->num_elems++` outside the `if (!found)`
HashTable_insert_CountsOverwrite(ht, key, key_len, new_value, old_value) ==
  IF ht = NULL_HT \/ key = NULL_PTR THEN
    [ht |-> ht, ret |-> FALSE, wrote |-> FALSE]
  ELSE
    LET true_key_len == get_true_key_len(key, key_len)
        hash         == FNV1a_64bit(key.mem, true_key_len)
        new_entry    == [hash |-> hash,
                         key |-> SubSeq(key.mem, 1, true_key_len),
                         key_len |-> true_key_len, value |-> new_value]
        idx          == bucket_idx_by_hash(ht, hash)
        bucket       == ht.buckets[idx]
        target       == advance_to_target(LLIterator_allocate(idx, bucket),
                                          bucket, hash, key, true_key_len)
        removed      == LLIterator_remove(target.iter, bucket, TRUE)
        bucket1      == IF target.ret THEN removed.list ELSE bucket
        ht2          == [ht EXCEPT
                           !.buckets[idx] =
                              LinkedList_prepend(bucket1, new_entry).list,
                           !.num_elems = @ + 1]
    IN  IF target.ret /\ old_value
        THEN [ht |-> ht2, ret |-> TRUE, wrote |-> TRUE,
              out |-> removed.out.value]
        ELSE [ht |-> ht2, ret |-> target.ret, wrote |-> FALSE]

\* HashTable_insert calling LinkedList_append for LinkedList_prepend
HashTable_insert_Appends(ht, key, key_len, new_value, old_value) ==
  IF ht = NULL_HT \/ key = NULL_PTR THEN
    [ht |-> ht, ret |-> FALSE, wrote |-> FALSE]
  ELSE
    LET true_key_len == get_true_key_len(key, key_len)
        hash         == FNV1a_64bit(key.mem, true_key_len)
        key_cpy      == SubSeq(key.mem, 1, true_key_len)
        new_entry    == [hash |-> hash, key |-> key_cpy,
                         key_len |-> true_key_len, value |-> new_value]
        idx          == bucket_idx_by_hash(ht, hash)
        bucket       == ht.buckets[idx]
        bucket_iter  == LLIterator_allocate(idx, bucket)
        target       == advance_to_target(bucket_iter, bucket, hash, key,
                                          true_key_len)
        found        == target.ret
        removed      == LLIterator_remove(target.iter, bucket, TRUE)
        bucket1      == IF found THEN removed.list ELSE bucket
        bucket2      == LinkedList_append(bucket1, new_entry).list
        ht2          == [ht EXCEPT !.buckets[idx] = bucket2,
                                   !.num_elems = IF found THEN @ ELSE @ + 1]
    IN  IF found /\ old_value
        THEN [ht |-> ht2, ret |-> found, wrote |-> TRUE,
              out |-> removed.out.value]
        ELSE [ht |-> ht2, ret |-> found, wrote |-> FALSE]

\* old_value: TRUE when the caller passes an output slot, FALSE for NULL.
HashTable_insert(ht, key, key_len, new_value, old_value) ==
  IF ht = NULL_HT \/ key = NULL_PTR THEN
    [ht |-> ht, ret |-> FALSE, wrote |-> FALSE]
  ELSE
    LET true_key_len == get_true_key_len(key, key_len)
        hash         == FNV1a_64bit(key.mem, true_key_len)
        key_cpy      == SubSeq(key.mem, 1, true_key_len)
        new_entry    == [hash |-> hash, key |-> key_cpy,
                         key_len |-> true_key_len, value |-> new_value]
        idx          == bucket_idx_by_hash(ht, hash)
        bucket       == ht.buckets[idx]
        bucket_iter  == LLIterator_allocate(idx, bucket)
        target       == advance_to_target(bucket_iter, bucket, hash, key,
                                          true_key_len)
        found        == target.ret
        removed      == LLIterator_remove(target.iter, bucket, TRUE)
        bucket1      == IF found THEN removed.list ELSE bucket
        bucket2      == LinkedList_prepend(bucket1, new_entry).list
        ht2          == [ht EXCEPT !.buckets[idx] = bucket2,
                                   !.num_elems = IF found THEN @ ELSE @ + 1]
    IN  IF found /\ old_value
        THEN [ht |-> ht2, ret |-> found, wrote |-> TRUE,
              out |-> removed.out.value]
        ELSE [ht |-> ht2, ret |-> found, wrote |-> FALSE]

\* The value slot found is named by its bucket and the node holding the entry.
HashTable_find(ht, key, key_len) ==
  IF ht = NULL_HT \/ key = NULL_PTR THEN NULL_PTR
  ELSE
    LET true_key_len == get_true_key_len(key, key_len)
        hash         == FNV1a_64bit(key.mem, true_key_len)
        idx          == bucket_idx_by_hash(ht, hash)
        bucket_iter  == LLIterator_allocate(idx, ht.buckets[idx])
        target       == advance_to_target(bucket_iter, ht.buckets[idx], hash,
                                          key, true_key_len)
    IN  IF ~target.ret THEN NULL_PTR
        ELSE [bucket |-> idx, node |-> LLIterator_get(target.iter)]

\* *slot for a slot HashTable_find returned
ValueAt(ht, slot) == ht.buckets[slot.bucket].node[slot.node].payload.value

\* HashTable_remove without `ht->num_elems--`
HashTable_remove_NoDecrement(ht, key, key_len, old_value) ==
  IF ht = NULL_HT \/ key = NULL_PTR THEN
    [ht |-> ht, ret |-> FALSE, wrote |-> FALSE, fault |-> FALSE]
  ELSE
    LET true_key_len == get_true_key_len(key, key_len)
        hash         == FNV1a_64bit(key.mem, true_key_len)
        idx          == bucket_idx_by_hash(ht, hash)
        bucket_iter  == LLIterator_allocate(idx, ht.buckets[idx])
        target       == advance_to_target(bucket_iter, ht.buckets[idx], hash,
                                          key, true_key_len)
        removed      == LLIterator_remove(target.iter, ht.buckets[idx], TRUE)
    IN  IF ~target.ret THEN
          [ht |-> ht, ret |-> FALSE, wrote |-> FALSE, fault |-> FALSE]
        ELSE IF ~old_value THEN
          [ht |-> [ht EXCEPT !.buckets[idx] = removed.list],
           ret |-> FALSE, wrote |-> FALSE, fault |-> TRUE]
        ELSE
          [ht |-> [ht EXCEPT !.buckets[idx] = removed.list],
           ret |-> TRUE, wrote |-> TRUE, fault |-> FALSE,
           out |-> removed.out.value]

\* HashTable_remove without the `if (!found) return false`: the failed
\* LLIterator_remove leaves old_entry unset, and the value stored through
\* old_value is not one of the table's
HashTable_remove_NoFoundCheck(ht, key, key_len, old_value) ==
  IF ht = NULL_HT \/ key = NULL_PTR THEN
    [ht |-> ht, ret |-> FALSE, wrote |-> FALSE, fault |-> FALSE]
  ELSE
    LET true_key_len == get_true_key_len(key, key_len)
        hash         == FNV1a_64bit(key.mem, true_key_len)
        idx          == bucket_idx_by_hash(ht, hash)
        target       == advance_to_target(
                          LLIterator_allocate(idx, ht.buckets[idx]),
                          ht.buckets[idx], hash, key, true_key_len)
        removed      == LLIterator_remove(target.iter, ht.buckets[idx], TRUE)
    IN  IF ~old_value THEN
          [ht |-> [ht EXCEPT !.buckets[idx] = removed.list],
           ret |-> FALSE, wrote |-> FALSE, fault |-> TRUE]
        ELSE
          [ht |-> [ht EXCEPT !.buckets[idx] = removed.list,
                             !.num_elems = @ - 1],
           ret |-> TRUE, wrote |-> TRUE, fault |-> FALSE,
           out |-> IF removed.wrote THEN removed.out.value ELSE 0]

\* `fault`: the call stored through the null old_value.  `freed`: the blocks
\* the call passed to free.
HashTable_remove(ht, key, key_len, old_value) ==
  IF ht = NULL_HT \/ key = NULL_PTR THEN
    [ht |-> ht, ret |-> FALSE, wrote |-> FALSE, fault |-> FALSE,
     freed |-> {}]
  ELSE
    LET true_key_len == get_true_key_len(key, key_len)
        hash         == FNV1a_64bit(key.mem, true_key_len)
        idx          == bucket_idx_by_hash(ht, hash)
        bucket_iter  == LLIterator_allocate(idx, ht.buckets[idx])
        target       == advance_to_target(bucket_iter, ht.buckets[idx], hash,
                                          key, true_key_len)
        found        == target.ret
        removed      == LLIterator_remove(target.iter, ht.buckets[idx], TRUE)
        node         == LLIterator_get(target.iter)
    IN  IF ~found THEN
          [ht |-> ht, ret |-> FALSE, wrote |-> FALSE, fault |-> FALSE,
           freed |-> {}]
        ELSE IF ~old_value THEN
          [ht |-> [ht EXCEPT !.buckets[idx] = removed.list],
           ret |-> FALSE, wrote |-> FALSE, fault |-> TRUE,
           freed |-> {Block("node", idx, node)}]
        ELSE
          [ht |-> [ht EXCEPT !.buckets[idx] = removed.list,
                             !.num_elems = @ - 1],
           ret |-> TRUE, wrote |-> TRUE, fault |-> FALSE,
           out |-> removed.out.value,
           freed |-> {Block("node", idx, node), Block("entry", idx, node)}]

\* what hti->table holds once HTIterator_allocate has assigned it
TABLE_PTR == [ptr |-> "table"]

\* HTIterator_allocate's do-while run once whatever cursor it gets
AllocScan_NoLoop(ht, bucket_idx) ==
  LET idx == bucket_idx + 1
  IN  [hti |-> [bucket_iter |-> LLIterator_allocate(idx, ht.buckets[idx]),
                table |-> TABLE_PTR, bucket_idx |-> idx],
       fault |-> FALSE]

\* the do-while of HTIterator_allocate, entered with iter->bucket_idx.
\* `fault`: buckets[] was indexed at or beyond num_buckets.
RECURSIVE AllocScan(_, _)
AllocScan(ht, bucket_idx) ==
  LET idx == bucket_idx + 1
  IN  IF idx \notin DOMAIN ht.buckets THEN
        [hti |-> [bucket_iter |-> NULL_ITER, table |-> TABLE_PTR,
                  bucket_idx |-> idx],
         fault |-> TRUE]
      ELSE
        LET it == LLIterator_allocate(idx, ht.buckets[idx])
        IN  IF LLIterator_is_valid(it)
            THEN [hti |-> [bucket_iter |-> it, table |-> TABLE_PTR,
                           bucket_idx |-> idx],
                  fault |-> FALSE]
            ELSE AllocScan(ht, idx)

HTIterator_allocate(ht) ==
  IF ht = NULL_HT THEN [hti |-> NULL_HTI, fault |-> FALSE]
  ELSE IF ht.num_elems = 0 THEN
    [hti |-> [bucket_iter |-> NULL_ITER, table |-> INDETERMINATE,
              bucket_idx |-> INDETERMINATE],
     fault |-> FALSE]
  ELSE AllocScan(ht, -1)

\* `ht` is the table hti->table points to when that field was assigned.
\* `ub`: the call read hti->table while it was indeterminate; `ret` is then
\* what the call returns if that read does not fault (bucket_iter is NULL in
\* such an iterator, so both remaining paths return false).
HTIterator_is_valid(hti, ht) ==
  IF hti = NULL_HTI THEN [ret |-> FALSE, ub |-> FALSE]
  ELSE IF hti.table = INDETERMINATE THEN
    [ret |-> hti.bucket_iter # NULL_ITER, ub |-> TRUE]
  ELSE IF ht.num_elems = 0 THEN [ret |-> FALSE, ub |-> FALSE]
  ELSE [ret |-> hti.bucket_iter # NULL_ITER, ub |-> FALSE]

\* HTIterator_next's scan giving up one bucket before the last
RECURSIVE NextScan_StopsOneEarly(_, _)
NextScan_StopsOneEarly(hti, ht) ==
  IF hti.bucket_idx >= ht.num_buckets - 2 THEN
    [hti |-> [hti EXCEPT !.bucket_iter = NULL_ITER], ret |-> FALSE]
  ELSE
    LET idx == hti.bucket_idx + 1
        it  == LLIterator_allocate(idx, ht.buckets[idx])
        h2  == [hti EXCEPT !.bucket_idx = idx, !.bucket_iter = it]
    IN  IF LLIterator_is_valid(it) THEN [hti |-> h2, ret |-> TRUE]
        ELSE NextScan_StopsOneEarly(h2, ht)

\* the do-while of HTIterator_next, entered after LLIterator_free
RECURSIVE NextScan(_, _)
NextScan(hti, ht) ==
  IF hti.bucket_idx = ht.num_buckets - 1 THEN
    [hti |-> [hti EXCEPT !.bucket_iter = NULL_ITER], ret |-> FALSE]
  ELSE
    LET idx == hti.bucket_idx + 1
        it  == LLIterator_allocate(idx, ht.buckets[idx])
        h2  == [hti EXCEPT !.bucket_idx = idx, !.bucket_iter = it]
    IN  IF LLIterator_is_valid(it) THEN [hti |-> h2, ret |-> TRUE]
        ELSE NextScan(h2, ht)

\* HTIterator_next leaving the bucket without stepping along its chain
HTIterator_next_LeavesBucket(hti, ht) ==
  IF hti = NULL_HTI THEN [hti |-> hti, ret |-> FALSE, ub |-> FALSE]
  ELSE
    LET valid == HTIterator_is_valid(hti, ht)
    IN  IF ~valid.ret THEN [hti |-> hti, ret |-> FALSE, ub |-> valid.ub]
        ELSE LET scan == NextScan(hti, ht)
             IN  [hti |-> scan.hti, ret |-> scan.ret, ub |-> FALSE]

HTIterator_next(hti, ht) ==
  IF hti = NULL_HTI THEN [hti |-> hti, ret |-> FALSE, ub |-> FALSE]
  ELSE
    LET valid == HTIterator_is_valid(hti, ht)
    IN  IF ~valid.ret THEN [hti |-> hti, ret |-> FALSE, ub |-> valid.ub]
        ELSE
          LET step == LLIterator_next(hti.bucket_iter,
                                      ht.buckets[hti.bucket_iter.list])
          IN  IF step.ret
              THEN [hti |-> [hti EXCEPT !.bucket_iter = step.lli],
                    ret |-> TRUE, ub |-> FALSE]
              ELSE LET scan == NextScan(hti, ht)
                   IN  [hti |-> scan.hti, ret |-> scan.ret, ub |-> FALSE]

\* all three output slots supplied
HTIterator_get(hti, ht) ==
  LET valid == HTIterator_is_valid(hti, ht)
  IN  IF hti = NULL_HTI \/ ~valid.ret THEN [ret |-> FALSE, ub |-> valid.ub]
      ELSE
        LET entry == ht.buckets[hti.bucket_iter.list]
                       .node[LLIterator_get(hti.bucket_iter)].payload
        IN  [ret |-> TRUE, ub |-> FALSE, key_out |-> entry.key,
             key_len_out |-> entry.key_len, value_out |-> entry.value]

\* `past_end`: what a read of the stored key copy finds at and after its
\* end, as the pointer HashTable_remove is given when key_len is 0 (NULL_PTR
\* when malloc(0) returned NULL).  A copy of 1 or more bytes is never read
\* past its end.
HTIterator_remove(hti, ht, past_end) ==
  LET valid == HTIterator_is_valid(hti, ht)
  IN  IF hti = NULL_HTI \/ ~valid.ret THEN
        [hti |-> hti, ht |-> ht, ret |-> FALSE, ub |-> valid.ub,
         wrote |-> FALSE]
      ELSE
        LET got     == HTIterator_get(hti, ht)
            key     == IF got.key_len_out = 0 THEN past_end
                       ELSE [mem |-> got.key_out]
            key_len == got.key_len_out
            next    == HTIterator_next(hti, ht)
            removed == HashTable_remove(ht, key, key_len, TRUE)
        IN  IF removed.wrote
            THEN [hti |-> next.hti, ht |-> removed.ht, ret |-> TRUE,
                  ub |-> FALSE, key_out |-> got.key_out,
                  key_len_out |-> key_len, wrote |-> TRUE,
                  value_out |-> removed.out]
            ELSE [hti |-> next.hti, ht |-> removed.ht, ret |-> TRUE,
                  ub |-> FALSE, key_out |-> got.key_out,
                  key_len_out |-> key_len, wrote |-> FALSE]

(* ---- the same calls when malloc returns NULL ---- *)

\* LinkedList_prepend when its malloc fails
LinkedList_prepend_failing(list, payload) == [list |-> list, ret |-> FALSE]

\* LinkedList_append when its malloc fails
LinkedList_append_failing(list, payload) == [list |-> list, ret |-> FALSE]

\* LLIterator_allocate when its malloc fails.  `fault`: the call stored
\* through the null lli.
LLIterator_allocate_failing(listref, list) ==
  IF list = NULL_LIST THEN [lli |-> NULL_ITER, fault |-> FALSE]
  ELSE [lli |-> NULL_ITER, fault |-> TRUE]

\* the allocations of HashTable_insert, in the order they are made
AllocationsOfInsert == {"key_cpy", "new_entry", "bucket_iter", "node"}

\* HashTable_insert when the allocation `failed` returns NULL.  `fault`:
\* the call stored through the null pointer.
HashTable_insert_failing(ht, key, key_len, new_value, old_value, failed) ==
  IF ht = NULL_HT \/ key = NULL_PTR THEN
    [ht |-> ht, ret |-> FALSE, wrote |-> FALSE, fault |-> FALSE]
  ELSE
    LET true_key_len == get_true_key_len(key, key_len)
        hash         == FNV1a_64bit(key.mem, true_key_len)
        key_cpy      == SubSeq(key.mem, 1, true_key_len)
        new_entry    == [hash |-> hash, key |-> key_cpy,
                         key_len |-> true_key_len, value |-> new_value]
        idx          == bucket_idx_by_hash(ht, hash)
        bucket       == ht.buckets[idx]
        bucket_iter  == LLIterator_allocate(idx, bucket)
        target       == advance_to_target(bucket_iter, bucket, hash, key,
                                          true_key_len)
        found        == target.ret
        removed      == LLIterator_remove(target.iter, bucket, TRUE)
        bucket1      == IF found THEN removed.list ELSE bucket
        bucket2      == LinkedList_prepend_failing(bucket1, new_entry).list
        ht2          == [ht EXCEPT !.buckets[idx] = bucket2,
                                   !.num_elems = IF found THEN @ ELSE @ + 1]
        complete     == HashTable_insert(ht, key, key_len, new_value,
                                         old_value)
    IN  IF failed = "key_cpy" THEN
          \* memcpy to the null key_cpy; of no bytes, it changes nothing
          IF true_key_len # 0
          THEN [ht |-> ht, ret |-> FALSE, wrote |-> FALSE, fault |-> TRUE]
          ELSE IF complete.wrote
          THEN [ht |-> complete.ht, ret |-> complete.ret, wrote |-> TRUE,
                out |-> complete.out, fault |-> FALSE]
          ELSE [ht |-> complete.ht, ret |-> complete.ret, wrote |-> FALSE,
                fault |-> FALSE]
        ELSE IF failed = "new_entry" THEN
          [ht |-> ht, ret |-> FALSE, wrote |-> FALSE, fault |-> TRUE]
        ELSE IF failed = "bucket_iter" THEN
          [ht |-> ht, ret |-> FALSE, wrote |-> FALSE,
           fault |-> LLIterator_allocate_failing(idx, bucket).fault]
        ELSE IF found /\ old_value THEN
          [ht |-> ht2, ret |-> found, wrote |-> TRUE,
           out |-> removed.out.value, fault |-> FALSE]
        ELSE
          [ht |-> ht2, ret |-> found, wrote |-> FALSE, fault |-> FALSE]

\* HashTable_find and HashTable_remove when the malloc of the bucket cursor
\* fails: both fault inside LLIterator_allocate, before the table is touched
HashTable_find_failing(ht, key, key_len) ==
  IF ht = NULL_HT \/ key = NULL_PTR THEN [slot |-> NULL_PTR, fault |-> FALSE]
  ELSE
    LET true_key_len == get_true_key_len(key, key_len)
        hash         == FNV1a_64bit(key.mem, true_key_len)
        idx          == bucket_idx_by_hash(ht, hash)
        bucket_iter  == LLIterator_allocate_failing(idx, ht.buckets[idx])
    IN  [slot |-> NULL_PTR, fault |-> bucket_iter.fault]

HashTable_remove_failing(ht, key, key_len, old_value) ==
  IF ht = NULL_HT \/ key = NULL_PTR THEN
    [ht |-> ht, ret |-> FALSE, wrote |-> FALSE, fault |-> FALSE]
  ELSE
    LET true_key_len == get_true_key_len(key, key_len)
        hash         == FNV1a_64bit(key.mem, true_key_len)
        idx          == bucket_idx_by_hash(ht, hash)
        bucket_iter  == LLIterator_allocate_failing(idx, ht.buckets[idx])
    IN  [ht |-> ht, ret |-> FALSE, wrote |-> FALSE,
         fault |-> bucket_iter.fault]

\* HTIterator_allocate when its malloc fails: either path stores through the
\* null iter
HTIterator_allocate_failing(ht) ==
  IF ht = NULL_HT THEN [hti |-> NULL_HTI, fault |-> FALSE]
  ELSE [hti |-> NULL_HTI, fault |-> TRUE]

\* the allocations of HashTable_allocate
AllocationsOfAllocate == {"ht", "buckets", "list"}

\* HashTable_allocate when an allocation fails: of the table, of the bucket
\* array, or of the list of bucket i
HashTable_allocate_failing(failed, i) ==
  IF failed = "ht" THEN NULL_HT
  ELSE IF failed = "buckets" THEN NULL_HT
  ELSE [HashTable_allocate EXCEPT !.buckets[i] = NULL_LIST]

-----------------------------------------------------------------------------
(* src/process_args.c, src/state.c, src/util.c, src/main.c.  A C string is *)
(* the sequence of its characters before the terminator; an Option* is the *)
(* index of the option in valid_options, 0 for NULL.                       *)

OPT_INTERACTIVE == 0
OPT_VERSION     == 1
OPT_PORT        == 2

UINT16_MAX == 65535

valid_options ==
  << [id |-> OPT_INTERACTIVE, short_name |-> "i",
      long_name |-> <<"i", "n", "t", "e", "r", "a", "c", "t", "i", "v", "e">>,
      info_type |-> "NONE", unique |-> TRUE],
     [id |-> OPT_VERSION, short_name |-> "v",
      long_name |-> <<"v", "e", "r", "s", "i", "o", "n">>,
      info_type |-> "NONE", unique |-> TRUE],
     [id |-> OPT_PORT, short_name |-> "p",
      long_name |-> <<"p", "o", "r", "t">>,
      info_type |-> "INT", unique |-> TRUE] >>

NUM_VALID_OPTIONS == Len(valid_options)

\* a malloc'd string handed to the caller; `text` names the message
ErrorString(text) == [string |-> text]

\* the string at s + n
StrFrom(s, n) == SubSeq(s, n + 1, Len(s))

\* strchr(s, c) - s, or -1 for NULL
strchr(s, c) ==
  IF \E i \in 1..Len(s) : s[i] = c
  THEN (CHOOSE i \in 1..Len(s) : s[i] = c /\ \A j \in 1..(i - 1) : s[j] # c)
         - 1
  ELSE -1

\* tolower on the characters the callers use: "V" is the one upper-case letter
tolower(c) == IF c = "V" THEN "v" ELSE c

\* strstr(curr_opt_name, option_name) == curr_opt_name
StartsWith(curr_opt_name, option_name) ==
  /\ Len(option_name) <= Len(curr_opt_name)
  /\ SubSeq(curr_opt_name, 1, Len(option_name)) = option_name

RECURSIVE FuzzyLoop(_, _, _)
FuzzyLoop(option_name, i, options) ==
  IF i > NUM_VALID_OPTIONS THEN options
  ELSE
    LET curr_opt_name == valid_options[i].long_name
    IN  IF StartsWith(curr_opt_name, option_name) THEN
          IF Len(curr_opt_name) = Len(option_name) THEN <<i>>
          ELSE FuzzyLoop(option_name, i + 1, Append(options, i))
        ELSE FuzzyLoop(option_name, i + 1, options)

\* the matches; the call returns true iff there is one
fuzzy_get_opt_by_long_name(option_name) == FuzzyLoop(option_name, 1, <<>>)

get_opt_by_short_name(short_name) ==
  IF \E i \in 1..NUM_VALID_OPTIONS : valid_options[i].short_name = short_name
  THEN CHOOSE i \in 1..NUM_VALID_OPTIONS :
         valid_options[i].short_name = short_name
  ELSE 0

get_opt_by_id(id) ==
  CHOOSE i \in 1..NUM_VALID_OPTIONS : valid_options[i].id = id

\* the count, or -1 with *error set
RECURSIVE count_combined_options(_, _)
count_combined_options(opt_str, index) ==
  IF index >= Len(opt_str) \/ opt_str[index + 1] = "=" THEN index
  ELSE
    LET current_opt == get_opt_by_short_name(opt_str[index + 1])
    IN  IF current_opt = 0 THEN -1
        ELSE IF valid_options[current_opt].info_type # "NONE" THEN index + 1
        ELSE count_combined_options(opt_str, index + 1)

Digits == <<"0", "1", "2", "3", "4", "5", "6", "7", "8", "9">>

IsDigit(c) == \E d \in 1..10 : Digits[d] = c

DigitValue(c) == (CHOOSE d \in 1..10 : Digits[d] = c) - 1

\* the digits at the start of s, as sscanf's %d consumes them
RECURSIVE DigitRun(_, _)
DigitRun(s, n) ==
  IF n < Len(s) /\ IsDigit(s[n + 1]) THEN DigitRun(s, n + 1) ELSE n

RECURSIVE DecimalValue(_, _, _)
DecimalValue(s, n, acc) ==
  IF n = 0 THEN acc
  ELSE DecimalValue(StrFrom(s, 1), n - 1, (acc * 10) + DigitValue(s[1]))

\* snprintf(NULL, 0, "%d", numeric)
RECURSIVE DecimalLength(_)
DecimalLength(numeric) ==
  IF numeric < 0 THEN 1 + DecimalLength(-numeric)
  ELSE IF numeric < 10 THEN 1
  ELSE 1 + DecimalLength(numeric \div 10)

\* parse_info_str for the type INT, the one type valid_options uses; the
\* strings the callers pass are short enough to stay within int32_t.  An
\* empty string is refused as INFO_RANGE or INFO_NOT_INT by what errno
\* holds; process_option answers OPT_INVALID_USE to both.
parse_info_str(info_str) ==
  LET negative == Len(info_str) > 0 /\ info_str[1] = "-"
      unsigned == IF negative THEN StrFrom(info_str, 1) ELSE info_str
      run      == DigitRun(unsigned, 0)
      value    == DecimalValue(unsigned, run, 0)
      numeric  == IF negative THEN -value ELSE value
  IN  IF run = 0 THEN [res |-> "INFO_NOT_INT"]
      ELSE IF DecimalLength(numeric) # Len(info_str)
      THEN [res |-> "INFO_NOT_INT"]
      ELSE [res |-> "INFO_OK", info |-> [type |-> "INT", numeric |-> numeric]]

\* SET_OUTPUT_PARAMS_ERROR with the result and the error string
OptionError(res, text) ==
  [res |-> res, error |-> ErrorString(text), next_idx |-> -1,
   options |-> <<>>, info |-> NULL_PTR, ub |-> FALSE]

\* process_option's tail: parse_info_str on info_str and the two results
OptionInfo(info_str, next_idx, options) ==
  LET parsed == parse_info_str(info_str)
  IN  IF parsed.res # "INFO_OK"
      THEN OptionError("OPT_INVALID_USE", "cannot be parsed as an integer")
      ELSE [res |-> "OPT_OK", error |-> NULL_PTR, next_idx |-> next_idx,
            options |-> options, info |-> parsed.info, ub |-> FALSE]

\* option_strs[idx] is option_strs[idx + 1] here, sequences starting at 1
process_option(option_strs_len, option_strs, idx) ==
  LET current_option == option_strs[idx + 1]
  IN  IF Len(current_option) > 1 /\ current_option[2] = "-" THEN
        LET equals_location == strchr(StrFrom(current_option, 2), "=")
            given       == IF equals_location = -1
                           THEN StrFrom(current_option, 2)
                           ELSE SubSeq(current_option, 3, equals_location + 2)
            option_name == [i \in 1..Len(given) |-> tolower(given[i])]
            matches     == fuzzy_get_opt_by_long_name(option_name)
            last_option == valid_options[matches[1]]
        IN  IF Len(matches) = 0
            THEN OptionError("OPT_UNKNOWN", "Unknown option")
            ELSE IF Len(matches) > 1
            THEN OptionError("OPT_AMBIGUOUS", "Ambiguous option")
            ELSE IF equals_location # -1 THEN
              IF last_option.info_type = "NONE"
              THEN OptionError("OPT_INVALID_USE",
                               "does not take an option-argument")
              ELSE OptionInfo(StrFrom(current_option, equals_location + 3),
                              idx + 1, <<matches[1]>>)
            ELSE IF last_option.info_type # "NONE" THEN
              IF idx + 1 = option_strs_len
              THEN OptionError("OPT_INVALID_USE",
                               "No option-argument provided")
              ELSE OptionInfo(option_strs[idx + 2], idx + 2, <<matches[1]>>)
            ELSE [res |-> "OPT_OK", error |-> NULL_PTR, next_idx |-> idx + 1,
                  options |-> <<matches[1]>>, info |-> NULL_PTR, ub |-> FALSE]
      ELSE
        LET options_count ==
              count_combined_options(StrFrom(current_option, 1), 0)
            options == [i \in 1..options_count |->
                          get_opt_by_short_name(current_option[i + 1])]
            last_option == valid_options[options[options_count]]
        IN  IF options_count < 0
            THEN OptionError("OPT_UNKNOWN", "Unknown short option")
            ELSE IF options_count = 0
            \* (*options)[-1] is read
            THEN [res |-> "OPT_OK", error |-> NULL_PTR, next_idx |-> idx + 1,
                  options |-> <<>>, info |-> INDETERMINATE, ub |-> TRUE]
            ELSE IF last_option.info_type = "NONE" THEN
              IF strchr(current_option, "=") # -1
              THEN OptionError("OPT_INVALID_USE",
                               "does not require an option-argument")
              ELSE [res |-> "OPT_OK", error |-> NULL_PTR,
                    next_idx |-> idx + 1, options |-> options,
                    info |-> NULL_PTR, ub |-> FALSE]
            ELSE IF Len(current_option) = options_count + 1 THEN
              IF idx + 1 = option_strs_len
              THEN OptionError("OPT_INVALID_USE",
                               "requires an option-argument")
              ELSE OptionInfo(option_strs[idx + 2], idx + 2, options)
            ELSE
              LET info_str == StrFrom(current_option, options_count + 1)
              IN  OptionInfo(IF info_str[1] = "=" THEN StrFrom(info_str, 1)
                             ELSE info_str,
                             idx + 1, options)

\* htons on the little-endian hosts the program is built for
htons(hostshort) == ((hostshort % 256) * 256) + (hostshort \div 256)

\* applied_options & (1 << id), as a truth value
OptionApplied(applied_options, id) == (applied_options \div (2 ^ id)) % 2 = 1

\* applied_options |= 1 << id, in the 8 bits of OptsApplied_t
ApplyBit(applied_options, id) ==
  IF OptionApplied(applied_options, id) THEN applied_options
  ELSE (applied_options + (2 ^ id)) % 256

\* ApplyOptions without the test of `unique`
RECURSIVE ApplyOptions_IgnoresUnique(_, _, _, _, _)
ApplyOptions_IgnoresUnique(options, i, info, applied_options, state) ==
  IF i > Len(options) THEN
    [ret |-> "none", applied_options |-> applied_options, state |-> state,
     error |-> NULL_PTR]
  ELSE
    LET current_option == valid_options[options[i]]
        applied        == ApplyBit(applied_options, current_option.id)
    IN  IF current_option.id = OPT_VERSION THEN
          ApplyOptions_IgnoresUnique(options, i + 1, info, applied,
            [state EXCEPT !.version_info_requested = TRUE])
        ELSE IF current_option.id = OPT_INTERACTIVE THEN
          ApplyOptions_IgnoresUnique(options, i + 1, info, applied,
            [state EXCEPT !.interactive = TRUE])
        ELSE IF info.numeric < 0 \/ info.numeric > UINT16_MAX THEN
          [ret |-> "ARGS_INVALID_USE", applied_options |-> applied,
           state |-> state,
           error |-> ErrorString("can only take values between 0 and 65535")]
        ELSE
          ApplyOptions_IgnoresUnique(options, i + 1, info, applied,
            [state EXCEPT !.port = htons(info.numeric)])

\* the for loop of process_args over the options of one argument; `ret` is
\* the ArgsResult it returns with, or "none" when the loop runs to its end
RECURSIVE ApplyOptions(_, _, _, _, _)
ApplyOptions(options, i, info, applied_options, state) ==
  IF i > Len(options) THEN
    [ret |-> "none", applied_options |-> applied_options, state |-> state,
     error |-> NULL_PTR]
  ELSE
    LET current_option == valid_options[options[i]]
        applied        == ApplyBit(applied_options, current_option.id)
    IN  IF current_option.unique
             /\ OptionApplied(applied_options, current_option.id) THEN
          [ret |-> "ARGS_CONFLICT", applied_options |-> applied_options,
           state |-> state, error |-> ErrorString("can only be applied once")]
        ELSE IF current_option.id = OPT_VERSION THEN
          ApplyOptions(options, i + 1, info, applied,
                       [state EXCEPT !.version_info_requested = TRUE])
        ELSE IF current_option.id = OPT_INTERACTIVE THEN
          ApplyOptions(options, i + 1, info, applied,
                       [state EXCEPT !.interactive = TRUE])
        ELSE IF info.numeric < 0 \/ info.numeric > UINT16_MAX THEN
          [ret |-> "ARGS_INVALID_USE", applied_options |-> applied,
           state |-> state,
           error |-> ErrorString("can only take values between 0 and 65535")]
        ELSE
          ApplyOptions(options, i + 1, info, applied,
                       [state EXCEPT !.port = htons(info.numeric)])

\* the ArgsResult for a ProcessOptionResult other than OPT_OK
ArgsResultOf(res) ==
  CASE res = "OPT_MEM" -> "ARGS_MEM"
    [] res = "OPT_UNKNOWN" -> "ARGS_UNKNOWN"
    [] res = "OPT_INVALID_USE" -> "ARGS_INVALID_USE"
    [] res = "OPT_AMBIGUOUS" -> "ARGS_AMBIGUOUS"

alloc_state ==
  [interactive |-> FALSE, version_info_requested |-> FALSE,
   port |-> INDETERMINATE]

\* `opened` of the files open before an fopen fails
alloc_config_files(file_count, file_names, opened) ==
  IF opened < file_count
  THEN [ret |-> FALSE, files |-> NULL_PTR,
        error |-> ErrorString("Error opening file")]
  ELSE [ret |-> TRUE, error |-> NULL_PTR,
        files |-> [file_count |-> file_count, files |-> file_names]]

\* main's locals before the call, and no call in progress
NotStarted ==
  [pc |-> "start", argv |-> <<>>, state |-> INDETERMINATE,
   files |-> INDETERMINATE, error |-> INDETERMINATE, current_arg |-> 0,
   applied_options |-> 0, res |-> "none", ub |-> FALSE]

\* process_args up to its loop.  argv[0] is argv[1] here.
process_args_enter(p, argv) ==
  LET argc == Len(argv)
      q    == [p EXCEPT !.argv = argv, !.state = NULL_PTR,
                        !.files = NULL_PTR, !.applied_options = 0]
  IN  IF argc = 1
      THEN [q EXCEPT !.error = ErrorString("No paramters given"),
                     !.res = "ARGS_NONE", !.pc = "returned"]
      ELSE [q EXCEPT !.state = alloc_state, !.current_arg = 1,
                     !.pc = "loop"]

\* one test of the while condition and, if it holds, one round of the body
process_args_loop(p) ==
  LET argc == Len(p.argv)
      arg  == p.argv[p.current_arg + 1]
  IN  IF ~(p.current_arg < argc /\ Len(arg) > 0 /\ arg[1] = "-")
      THEN [p EXCEPT !.pc = "files"]
      ELSE IF Len(arg) = 1 THEN [p EXCEPT !.pc = "files"]
      ELSE IF arg = <<"-", "-">>
      THEN [p EXCEPT !.current_arg = @ + 1, !.pc = "files"]
      ELSE
        LET o == process_option(argc, p.argv, p.current_arg)
            a == ApplyOptions(o.options, 1, o.info, p.applied_options,
                              p.state)
        IN  IF o.ub THEN [p EXCEPT !.ub = TRUE, !.pc = "exited"]
            ELSE IF o.res # "OPT_OK"
            THEN [p EXCEPT !.current_arg = o.next_idx, !.error = o.error,
                           !.res = ArgsResultOf(o.res), !.pc = "returned"]
            ELSE IF a.ret # "none"
            THEN [p EXCEPT !.current_arg = o.next_idx, !.error = a.error,
                           !.applied_options = a.applied_options,
                           !.state = a.state, !.res = a.ret,
                           !.pc = "returned"]
            ELSE IF OptionApplied(a.applied_options, OPT_VERSION)
                      /\ a.applied_options # 2 ^ OPT_VERSION
            THEN [p EXCEPT !.current_arg = o.next_idx,
                           !.error = ErrorString("cannot be combined with other options"),
                           !.applied_options = a.applied_options,
                           !.state = a.state, !.res = "ARGS_CONFLICT",
                           !.pc = "returned"]
            ELSE [p EXCEPT !.current_arg = o.next_idx, !.error = NULL_PTR,
                           !.applied_options = a.applied_options,
                           !.state = a.state]

\* process_args after its loop
process_args_files(p, opened) ==
  LET argc == Len(p.argv)
      c    == alloc_config_files(argc - p.current_arg,
                                 StrFrom(p.argv, p.current_arg), opened)
  IN  IF p.current_arg = argc
      THEN [p EXCEPT !.res = "ARGS_NO_FILES", !.pc = "returned"]
      ELSE IF p.state.version_info_requested
      THEN [p EXCEPT !.res = "ARGS_INVALID_USE", !.pc = "returned"]
      ELSE [p EXCEPT !.error = c.error, !.files = c.files,
                     !.res = IF c.ret THEN "ARGS_OK" ELSE "ARGS_FILE_ERR",
                     !.pc = "returned"]

\* FREE_AT_EXIT: free_state(state), free_config_files(files), free(error);
\* a pointer that was never written is freed all the same
FREE_AT_EXIT(p) ==
  [p EXCEPT !.pc = "exited",
            !.ub = \/ p.state = INDETERMINATE
                   \/ p.files = INDETERMINATE
                   \/ p.error = INDETERMINATE]

-----------------------------------------------------------------------------
(* The list cursors of lib/hash_table.c.  For one call: how many cursors   *)
(* it mallocs through LLIterator_allocate, how many it hands to            *)
(* LLIterator_free, and how many the caller's iterator holds as its        *)
(* bucket_iter before and after.                                           *)

NoCursors == [allocated |-> 0, freed |-> 0, held_before |-> 0, held_after |-> 0]

\* the cursors live after the call that nothing points to any more
CursorsLost(c) == (c.allocated - c.freed) - (c.held_after - c.held_before)

\* bucket_iter is allocated and never passed to LLIterator_free
HashTable_insert_cursors(ht, key) ==
  IF ht = NULL_HT \/ key = NULL_PTR THEN NoCursors
  ELSE [NoCursors EXCEPT !.allocated = 1]

HashTable_find_cursors(ht, key) ==
  IF ht = NULL_HT \/ key = NULL_PTR THEN NoCursors
  ELSE [NoCursors EXCEPT !.allocated = 1]

HashTable_remove_cursors(ht, key) ==
  IF ht = NULL_HT \/ key = NULL_PTR THEN NoCursors
  ELSE [NoCursors EXCEPT !.allocated = 1]

\* one cursor for each round of the do-while, the last one kept
HTIterator_allocate_cursors(ht) ==
  IF ht = NULL_HT THEN NoCursors
  ELSE IF ht.num_elems = 0 THEN NoCursors
  ELSE LET scan == AllocScan(ht, -1)
       IN  [NoCursors EXCEPT
              !.allocated = IF scan.fault THEN scan.hti.bucket_idx
                            ELSE scan.hti.bucket_idx + 1,
              !.held_after = IF scan.fault THEN 0 ELSE 1]

\* the exhausted cursor is freed, then one cursor for each round of the
\* do-while, the last one kept unless the buckets ran out
HTIterator_next_cursors(hti, ht) ==
  IF hti = NULL_HTI THEN NoCursors
  ELSE IF ~HTIterator_is_valid(hti, ht).ret THEN NoCursors
  ELSE IF LLIterator_next(hti.bucket_iter,
                          ht.buckets[hti.bucket_iter.list]).ret
  THEN [NoCursors EXCEPT !.held_before = 1, !.held_after = 1]
  ELSE LET scan == NextScan(hti, ht)
       IN  [allocated   |-> scan.hti.bucket_idx - hti.bucket_idx,
            freed       |-> 1,
            held_before |-> 1,
            held_after  |-> IF scan.ret THEN 1 ELSE 0]

\* LLIterator_free(hti->bucket_iter), which may be NULL
HTIterator_free_cursors(hti) ==
  IF hti = NULL_HTI THEN NoCursors
  ELSE IF hti.bucket_iter = NULL_ITER THEN NoCursors
  ELSE [NoCursors EXCEPT !.freed = 1, !.held_before = 1]

-----------------------------------------------------------------------------
(* The callers' inputs. *)

Values == 1..MaxVal

\* the keys the callers use
Keys == {KeyPool[i] : i \in 1..NumKeys}

\* a caller's null-terminated key buffer
CString(k) == [mem |-> k \o <<0>>]

\* the key_len arguments used with buffer k: the sentinel 0, or an explicit
\* length up to strlen(k)
KeyLens(k) == 0..Len(k)

\* What lies past the end of a key copy is not the table's: a terminator at
\* once, bytes that spell another key, bytes that spell no key; or the copy
\* of zero bytes is the null pointer.
PastEnd == {NULL_PTR} \cup {CString(g) : g \in Keys \cup {<<255>>}}

\* the arguments of the command lines: the options in their long and short
\* forms, alone and combined, abbreviated, with an option-argument in and
\* out of range, an unknown option, "--", "-" and a file name
ArgPool ==
  { <<"-", "-", "v", "e", "r", "s", "i", "o", "n">>,
    <<"-", "v">>,
    <<"-", "-", "i", "n", "t", "e", "r", "a", "c", "t", "i", "v", "e">>,
    <<"-", "i">>,
    <<"-", "-", "p", "o", "r", "t", "=", "8", "0">>,
    <<"-", "p", "7", "0", "0", "0", "0">>,
    <<"-", "v", "i">>,
    <<"-", "-", "V", "e", "r">>,
    <<"-", "x">>,
    <<"-", "-">>,
    <<"-">>,
    <<"f">> }

\* argv: the program's name and up to MaxArgs arguments
Argvs ==
  UNION {{<<<<"s", "g">>>> \o [i \in 1..n |-> a[i]] : a \in [1..n -> ArgPool]} :
           n \in 0..MaxArgs}

-----------------------------------------------------------------------------
(* The state machine. *)

Init ==
  /\ theList = LinkedList_allocate
  /\ theCursor = NULL_ITER
  /\ listRet = [op |-> "allocate"]
  /\ table = HashTable_allocate
  /\ tableIter = NULL_HTI
  /\ ret = [op |-> "allocate"]
  /\ undef = FALSE
  /\ proc = NotStarted

(* ---- linked list calls ---- *)

\* A list is not changed behind an outstanding cursor (linked_list.h).
LLPrepend(payload) ==
  /\ theCursor = NULL_ITER
  /\ theList.num_elems < MaxLen
  /\ LET r == LinkedList_prepend(theList, payload)
     IN  /\ theList' = r.list
         /\ listRet' = [op |-> "prepend", ret |-> r.ret]
  /\ UNCHANGED <<theCursor, htvars>>

LLAppend(payload) ==
  /\ theCursor = NULL_ITER
  /\ theList.num_elems < MaxLen
  /\ LET r == LinkedList_append(theList, payload)
     IN  /\ theList' = r.list
         /\ listRet' = [op |-> "append", ret |-> r.ret]
  /\ UNCHANGED <<theCursor, htvars>>

\* the value a pop or a remove reports: its return and what it stored
Popped(op, r) ==
  IF r.wrote THEN [op |-> op, ret |-> r.ret, wrote |-> TRUE, out |-> r.out]
  ELSE [op |-> op, ret |-> r.ret, wrote |-> FALSE]

LLPopHead ==
  /\ theCursor = NULL_ITER
  /\ LET r == LinkedList_pop_head(theList, TRUE)
     IN  /\ theList' = r.list
         /\ listRet' = Popped("pop_head", r)
  /\ UNCHANGED <<theCursor, htvars>>

LLPopTail ==
  /\ theCursor = NULL_ITER
  /\ LET r == LinkedList_pop_tail(theList, TRUE)
     IN  /\ theList' = r.list
         /\ listRet' = Popped("pop_tail", r)
  /\ UNCHANGED <<theCursor, htvars>>

LLIterAllocate ==
  /\ theCursor = NULL_ITER
  /\ theCursor' = LLIterator_allocate("theList", theList)
  /\ listRet' = [op |-> "iter_allocate"]
  /\ UNCHANGED <<theList, htvars>>

LLIterFree ==
  /\ theCursor # NULL_ITER
  /\ theCursor' = NULL_ITER
  /\ listRet' = [op |-> "iter_free"]
  /\ UNCHANGED <<theList, htvars>>

LLIterNext ==
  /\ theCursor # NULL_ITER
  /\ LET r == LLIterator_next(theCursor, theList)
     IN  /\ theCursor' = r.lli
         /\ listRet' = [op |-> "iter_next", ret |-> r.ret]
  /\ UNCHANGED <<theList, htvars>>

LLIterPrev ==
  /\ theCursor # NULL_ITER
  /\ LET r == LLIterator_prev(theCursor, theList)
     IN  /\ theCursor' = r.lli
         /\ listRet' = [op |-> "iter_prev", ret |-> r.ret]
  /\ UNCHANGED <<theList, htvars>>

LLIterRewind ==
  /\ theCursor # NULL_ITER
  /\ LET r == LLIterator_rewind(theCursor, theList)
     IN  /\ theCursor' = r.lli
         /\ listRet' = [op |-> "iter_rewind", ret |-> r.ret]
  /\ UNCHANGED <<theList, htvars>>

LLIterFastForward ==
  /\ theCursor # NULL_ITER
  /\ LET r == LLIterator_fast_forward(theCursor, theList)
     IN  /\ theCursor' = r.lli
         /\ listRet' = [op |-> "iter_fast_forward", ret |-> r.ret]
  /\ UNCHANGED <<theList, htvars>>

\* listRet also keeps the neighbours the removed node had
LLIterRemove ==
  /\ theCursor # NULL_ITER
  /\ LET r == LLIterator_remove(theCursor, theList, TRUE)
     IN  /\ theCursor' = r.lli
         /\ theList' = r.list
         /\ listRet' =
              IF r.wrote
              THEN [op |-> "iter_remove", ret |-> r.ret, wrote |-> TRUE,
                    out |-> r.out,
                    pred |-> theList.node[theCursor.current].prev,
                    succ |-> theList.node[theCursor.current].next]
              ELSE [op |-> "iter_remove", ret |-> r.ret, wrote |-> FALSE]
  /\ UNCHANGED htvars

\* the calls during which malloc returns NULL
LLPrependFails(payload) ==
  /\ theCursor = NULL_ITER
  /\ LET r == LinkedList_prepend_failing(theList, payload)
     IN  /\ theList' = r.list
         /\ listRet' = [op |-> "prepend_fails", ret |-> r.ret]
  /\ UNCHANGED <<theCursor, htvars>>

LLAppendFails(payload) ==
  /\ theCursor = NULL_ITER
  /\ LET r == LinkedList_append_failing(theList, payload)
     IN  /\ theList' = r.list
         /\ listRet' = [op |-> "append_fails", ret |-> r.ret]
  /\ UNCHANGED <<theCursor, htvars>>

\* The pops with a null argument: `null_list` says whether the list or
\* payload_out is the null one.  A call on the null list is given no list to
\* change.
LLPopHeadNull(null_list) ==
  /\ theCursor = NULL_ITER
  /\ LET r == IF null_list THEN LinkedList_pop_head(NULL_LIST, TRUE)
              ELSE LinkedList_pop_head(theList, FALSE)
     IN  /\ theList' = IF null_list THEN theList ELSE r.list
         /\ listRet' = [Popped("pop_head_null", r) EXCEPT
                          !.op = IF null_list THEN "pop_head_null_list"
                                 ELSE "pop_head_null_out"]
  /\ UNCHANGED <<theCursor, htvars>>

LLPopTailNull(null_list) ==
  /\ theCursor = NULL_ITER
  /\ LET r == IF null_list THEN LinkedList_pop_tail(NULL_LIST, TRUE)
              ELSE LinkedList_pop_tail(theList, FALSE)
     IN  /\ theList' = IF null_list THEN theList ELSE r.list
         /\ listRet' = [Popped("pop_tail_null", r) EXCEPT
                          !.op = IF null_list THEN "pop_tail_null_list"
                                 ELSE "pop_tail_null_out"]
  /\ UNCHANGED <<theCursor, htvars>>

\* The cursor calls with a null argument.  A call on the null cursor is
\* given no cursor and no list to change.
LLIterRemoveNull(null_cursor) ==
  /\ null_cursor \/ theCursor # NULL_ITER
  /\ LET r == IF null_cursor THEN LLIterator_remove(NULL_ITER, theList, TRUE)
              ELSE LLIterator_remove(theCursor, theList, FALSE)
     IN  /\ theCursor' = IF null_cursor THEN theCursor ELSE r.lli
         /\ theList' = r.list
         /\ listRet' = [op |-> IF null_cursor THEN "iter_remove_null_cursor"
                               ELSE "iter_remove_null_out",
                        ret |-> r.ret, wrote |-> r.wrote]
  /\ UNCHANGED htvars

LLIterNextNull ==
  /\ listRet' = [op |-> "iter_next_null",
                 ret |-> LLIterator_next(NULL_ITER, theList).ret]
  /\ UNCHANGED <<theList, theCursor, htvars>>

LLIterPrevNull ==
  /\ listRet' = [op |-> "iter_prev_null",
                 ret |-> LLIterator_prev(NULL_ITER, theList).ret]
  /\ UNCHANGED <<theList, theCursor, htvars>>

LLIterRewindNull ==
  /\ listRet' = [op |-> "iter_rewind_null",
                 ret |-> LLIterator_rewind(NULL_ITER, theList).ret]
  /\ UNCHANGED <<theList, theCursor, htvars>>

LLIterFastForwardNull ==
  /\ listRet' = [op |-> "iter_fast_forward_null",
                 ret |-> LLIterator_fast_forward(NULL_ITER, theList).ret]
  /\ UNCHANGED <<theList, theCursor, htvars>>

LLIterAllocateNull ==
  /\ listRet' = [op |-> "iter_allocate_null",
                 ret |-> LLIterator_allocate("theList", NULL_LIST)]
  /\ UNCHANGED <<theList, theCursor, htvars>>

NextLL ==
  \/ \E payload \in Values : LLPrepend(payload)
  \/ \E payload \in Values : LLAppend(payload)
  \/ LLPopHead
  \/ LLPopTail
  \/ LLIterAllocate
  \/ LLIterFree
  \/ LLIterNext
  \/ LLIterPrev
  \/ LLIterRewind
  \/ LLIterFastForward
  \/ LLIterRemove
  \/ \E payload \in Values : LLPrependFails(payload)
  \/ \E payload \in Values : LLAppendFails(payload)
  \/ \E null_list \in BOOLEAN : LLPopHeadNull(null_list)
  \/ \E null_list \in BOOLEAN : LLPopTailNull(null_list)
  \/ \E null_cursor \in BOOLEAN : LLIterRemoveNull(null_cursor)
  \/ LLIterNextNull
  \/ LLIterPrevNull
  \/ LLIterRewindNull
  \/ LLIterFastForwardNull
  \/ LLIterAllocateNull

SpecLL == Init /\ [][NextLL]_vars

(* ---- hash table calls ---- *)

\* the value a table call reports: its return and what it stored
Reported(op, r) ==
  IF r.wrote THEN [op |-> op, rv |-> r.ret, wrote |-> TRUE, out |-> r.out]
  ELSE [op |-> op, rv |-> r.ret, wrote |-> FALSE]

\* A table is not changed behind an outstanding iterator (hash_table.h).
Insert(k, key_len, new_value, old_value) ==
  /\ ~undef
  /\ tableIter = NULL_HTI
  /\ LET r == HashTable_insert(table, CString(k), key_len, new_value,
                               old_value)
     IN  /\ table' = r.ht
         /\ ret' = Reported("insert", r)
  /\ UNCHANGED <<tableIter, undef, llvars>>

Remove(k, key_len, old_value) ==
  /\ ~undef
  /\ tableIter = NULL_HTI
  /\ LET r == HashTable_remove(table, CString(k), key_len, old_value)
     IN  /\ table' = r.ht
         /\ undef' = r.fault
         /\ ret' = IF r.fault THEN [op |-> "remove", fault |-> TRUE]
                   ELSE Reported("remove", r)
  /\ UNCHANGED <<tableIter, llvars>>

Find(k, key_len) ==
  /\ ~undef
  /\ LET slot == HashTable_find(table, CString(k), key_len)
     IN  ret' = IF slot = NULL_PTR
                THEN [op |-> "find", rv |-> NULL_PTR]
                ELSE [op |-> "find", rv |-> [value |-> ValueAt(table, slot)]]
  /\ UNCHANGED <<table, tableIter, undef, llvars>>

\* the entry an iterator designates, read without going through the API
Designates(hti) ==
  /\ hti # NULL_HTI
  /\ hti.bucket_iter # NULL_ITER
  /\ hti.bucket_iter.current # NULL

Designated(hti, ht) ==
  ht.buckets[hti.bucket_iter.list].node[hti.bucket_iter.current].payload

\* the cursor of hti designates a node that has been freed
Dangling(hti, ht) ==
  /\ Designates(hti)
  /\ hti.bucket_iter.current
       \notin DOMAIN ht.buckets[hti.bucket_iter.list].node

IterAllocate ==
  /\ ~undef
  /\ tableIter = NULL_HTI
  /\ LET r == HTIterator_allocate(table)
     IN  /\ tableIter' = r.hti
         /\ undef' = r.fault
  /\ ret' = [op |-> "iter_allocate"]
  /\ UNCHANGED <<table, llvars>>

IterFree ==
  /\ ~undef
  /\ tableIter # NULL_HTI
  /\ tableIter' = NULL_HTI
  /\ ret' = [op |-> "iter_free"]
  /\ UNCHANGED <<table, undef, llvars>>

\* A call that read the indeterminate hti->table either faults on it or
\* goes on to return.
IterIsValid ==
  /\ ~undef
  /\ tableIter # NULL_HTI
  /\ LET r == HTIterator_is_valid(tableIter, table)
     IN  \/ /\ r.ub
            /\ undef' = TRUE
            /\ ret' = [op |-> "iter_is_valid", fault |-> TRUE]
         \/ /\ undef' = FALSE
            /\ ret' = [op |-> "iter_is_valid", rv |-> r.ret]
  /\ UNCHANGED <<table, tableIter, llvars>>

IterNext ==
  /\ ~undef
  /\ tableIter # NULL_HTI
  /\ LET r == HTIterator_next(tableIter, table)
     IN  \/ /\ r.ub
            /\ undef' = TRUE
            /\ ret' = [op |-> "iter_next", fault |-> TRUE]
            /\ UNCHANGED tableIter
         \/ /\ undef' = FALSE
            /\ tableIter' = r.hti
            /\ ret' = [op |-> "iter_next", rv |-> r.ret]
  /\ UNCHANGED <<table, llvars>>

IterGet ==
  /\ ~undef
  /\ tableIter # NULL_HTI
  /\ LET r == HTIterator_get(tableIter, table)
     IN  \/ /\ r.ub
            /\ undef' = TRUE
            /\ ret' = [op |-> "iter_get", fault |-> TRUE]
         \/ /\ undef' = FALSE
            /\ ret' = IF r.ret
                      THEN [op |-> "iter_get", rv |-> TRUE,
                            key_out |-> r.key_out,
                            key_len_out |-> r.key_len_out,
                            value_out |-> r.value_out]
                      ELSE [op |-> "iter_get", rv |-> FALSE]
  /\ UNCHANGED <<table, tableIter, llvars>>

\* the outcomes of the read past the end that HTIterator_remove(hti) makes:
\* all of PastEnd for a copy of zero bytes, and none that matters otherwise
ReadPastEnd(hti, ht) ==
  IF Designates(hti) /\ ~Dangling(hti, ht) /\ Designated(hti, ht).key_len = 0
  THEN PastEnd
  ELSE {NULL_PTR}

IterRemove(past_end) ==
  /\ ~undef
  /\ tableIter # NULL_HTI
  /\ LET r == HTIterator_remove(tableIter, table, past_end)
     IN  \/ /\ r.ub
            /\ undef' = TRUE
            /\ ret' = [op |-> "iter_remove", fault |-> TRUE]
            /\ UNCHANGED <<table, tableIter>>
         \/ /\ ~r.ret
            /\ undef' = FALSE
            /\ ret' = [op |-> "iter_remove", rv |-> FALSE]
            /\ UNCHANGED <<table, tableIter>>
         \/ /\ r.ret
            /\ table' = r.ht
            /\ tableIter' = r.hti
            /\ undef' = Dangling(r.hti, r.ht)
            /\ ret' = IF r.wrote
                      THEN [op |-> "iter_remove", rv |-> TRUE,
                            key_out |-> r.key_out,
                            key_len_out |-> r.key_len_out,
                            wrote |-> TRUE, value_out |-> r.value_out]
                      ELSE [op |-> "iter_remove", rv |-> TRUE,
                            key_out |-> r.key_out,
                            key_len_out |-> r.key_len_out,
                            wrote |-> FALSE]
  /\ UNCHANGED llvars

\* HashTable_free ends the table; the caller goes on with the table it
\* allocates next.
Free(value_free) ==
  /\ ~undef
  /\ tableIter = NULL_HTI
  /\ LET r == HashTable_free(table, value_free)
     IN  ret' = [op |-> "free", value_free |-> value_free,
                 disposed |-> r.disposed, freed |-> r.freed]
  /\ table' = HashTable_allocate
  /\ UNCHANGED <<tableIter, undef, llvars>>

\* The calls with a null argument: `null_table` says whether the table or
\* the key is the null one.  A call on the null table is given no table to
\* change.
InsertNull(null_table, k, new_value, old_value) ==
  /\ ~undef
  /\ tableIter = NULL_HTI
  /\ LET r == HashTable_insert(IF null_table THEN NULL_HT ELSE table,
                               IF null_table THEN CString(k) ELSE NULL_PTR,
                               0, new_value, old_value)
     IN  /\ table' = IF null_table THEN table ELSE r.ht
         /\ ret' = [op |-> "insert_null", rv |-> r.ret, wrote |-> r.wrote,
                    null_table |-> null_table]
  /\ UNCHANGED <<tableIter, undef, llvars>>

RemoveNull(null_table, k, old_value) ==
  /\ ~undef
  /\ tableIter = NULL_HTI
  /\ LET r == HashTable_remove(IF null_table THEN NULL_HT ELSE table,
                               IF null_table THEN CString(k) ELSE NULL_PTR,
                               0, old_value)
     IN  /\ table' = IF null_table THEN table ELSE r.ht
         /\ undef' = r.fault
         /\ ret' = [op |-> "remove_null", rv |-> r.ret, wrote |-> r.wrote,
                    null_table |-> null_table]
  /\ UNCHANGED <<tableIter, llvars>>

FindNull(null_table, k) ==
  /\ ~undef
  /\ ret' = [op |-> "find_null",
             rv |-> HashTable_find(
                      IF null_table THEN NULL_HT ELSE table,
                      IF null_table THEN CString(k) ELSE NULL_PTR, 0),
             null_table |-> null_table]
  /\ UNCHANGED <<table, tableIter, undef, llvars>>

NumElements(null_table) ==
  /\ ~undef
  /\ ret' = [op |-> "num_elements",
             rv |-> HashTable_num_elements(
                      IF null_table THEN NULL_HT ELSE table),
             null_table |-> null_table]
  /\ UNCHANGED <<table, tableIter, undef, llvars>>

\* HTIterator_allocate(NULL): the caller is handed no iterator
IterAllocateNull ==
  /\ ~undef
  /\ LET r == HTIterator_allocate(NULL_HT)
     IN  /\ undef' = r.fault
         /\ ret' = [op |-> "iter_allocate_null", rv |-> r.hti]
  /\ UNCHANGED <<table, tableIter, llvars>>

Next ==
  \/ \E k \in Keys : \E key_len \in KeyLens(k) : \E v \in Values :
       \E old_value \in BOOLEAN : Insert(k, key_len, v, old_value)
  \/ \E k \in Keys : \E key_len \in KeyLens(k) : \E old_value \in BOOLEAN :
       Remove(k, key_len, old_value)
  \/ \E k \in Keys : \E key_len \in KeyLens(k) : Find(k, key_len)
  \/ IterAllocate
  \/ IterFree
  \/ IterIsValid
  \/ IterNext
  \/ IterGet
  \/ \E past_end \in ReadPastEnd(tableIter, table) : IterRemove(past_end)
  \/ \E null_table \in BOOLEAN : \E k \in Keys : \E v \in Values :
       \E old_value \in BOOLEAN : InsertNull(null_table, k, v, old_value)
  \/ \E null_table \in BOOLEAN : \E k \in Keys : \E old_value \in BOOLEAN :
       RemoveNull(null_table, k, old_value)
  \/ \E null_table \in BOOLEAN : \E k \in Keys : FindNull(null_table, k)
  \/ \E null_table \in BOOLEAN : NumElements(null_table)
  \/ IterAllocateNull
  \/ \E value_free \in BOOLEAN : Free(value_free)

Spec == Init /\ [][Next]_vars

(* ---- the state machine with failing allocations ---- *)

\* LinkedList_num_elements summed over the buckets from index b on
RECURSIVE SumOfBuckets(_, _)
SumOfBuckets(ht, b) ==
  IF b \notin DOMAIN ht.buckets THEN 0
  ELSE LinkedList_num_elements(ht.buckets[b]) + SumOfBuckets(ht, b + 1)

\* the count may run ahead of the buckets by MaxLost entries
Lost(ht) == HashTable_num_elements(ht) - SumOfBuckets(ht, 0)

InsertFails(k, key_len, new_value, old_value, failed) ==
  /\ ~undef
  /\ tableIter = NULL_HTI
  /\ Lost(table) < MaxLost
  /\ LET r == HashTable_insert_failing(table, CString(k), key_len, new_value,
                                       old_value, failed)
         complete == HashTable_insert(table, CString(k), key_len, new_value,
                                      old_value)
     IN  /\ table' = r.ht
         /\ undef' = r.fault
         /\ ret' = [op |-> "insert_fails", failed |-> failed,
                    fault |-> r.fault, rv |-> r.ret, complete |-> complete.ret]
  /\ UNCHANGED <<tableIter, llvars>>

FindFails(k, key_len) ==
  /\ ~undef
  /\ LET r == HashTable_find_failing(table, CString(k), key_len)
     IN  /\ undef' = r.fault
         /\ ret' = [op |-> "find_fails", fault |-> r.fault]
  /\ UNCHANGED <<table, tableIter, llvars>>

RemoveFails(k, key_len, old_value) ==
  /\ ~undef
  /\ tableIter = NULL_HTI
  /\ LET r == HashTable_remove_failing(table, CString(k), key_len, old_value)
     IN  /\ table' = r.ht
         /\ undef' = r.fault
         /\ ret' = [op |-> "remove_fails", fault |-> r.fault]
  /\ UNCHANGED <<tableIter, llvars>>

IterAllocateFails ==
  /\ ~undef
  /\ tableIter = NULL_HTI
  /\ LET r == HTIterator_allocate_failing(table)
     IN  /\ tableIter' = r.hti
         /\ undef' = r.fault
         /\ ret' = [op |-> "iter_allocate_fails", fault |-> r.fault]
  /\ UNCHANGED <<table, llvars>>

NextOOM ==
  \/ Next
  \/ \E k \in Keys : \E key_len \in KeyLens(k) : \E v \in Values :
       \E old_value \in BOOLEAN : \E failed \in AllocationsOfInsert :
         InsertFails(k, key_len, v, old_value, failed)
  \/ \E k \in Keys : \E key_len \in KeyLens(k) : FindFails(k, key_len)
  \/ \E k \in Keys : \E key_len \in KeyLens(k) : \E old_value \in BOOLEAN :
       RemoveFails(k, key_len, old_value)
  \/ IterAllocateFails

SpecOOM == Init /\ [][NextOOM]_vars

(* ---- super-glue's main and its call of process_args ---- *)

\* main is started with some command line
ProcessArgsEnter ==
  /\ proc.pc = "start"
  /\ \E argv \in Argvs : proc' = process_args_enter(proc, argv)
  /\ UNCHANGED libvars

ProcessArgsLoop ==
  /\ proc.pc = "loop"
  /\ proc' = process_args_loop(proc)
  /\ UNCHANGED libvars

\* `opened` of the files can be opened
ProcessArgsFiles ==
  /\ proc.pc = "files"
  /\ \E opened \in 0..(Len(proc.argv) - proc.current_arg) :
       proc' = process_args_files(proc, opened)
  /\ UNCHANGED libvars

\* main after the call: every branch ends in FREE_AT_EXIT
MainExit ==
  /\ proc.pc = "returned"
  /\ proc' = FREE_AT_EXIT(proc)
  /\ UNCHANGED libvars

NextArgs ==
  \/ ProcessArgsEnter
  \/ ProcessArgsLoop
  \/ ProcessArgsFiles
  \/ MainExit

SpecArgs == Init /\ [][NextArgs]_vars

-----------------------------------------------------------------------------
(* The traversals of test_hash_table.c, run on a fresh iterator.  `seen` is
   what the calls reported, in order (`wrote`: the call stored a value);
   `ended`: HTIterator_is_valid returned
   false; `ub`: a call read the indeterminate hti->table, or the cursor was
   left on a freed node; at most `fuel` rounds are run. *)

RECURSIVE CoverageLoop(_, _, _, _)
CoverageLoop(hti, ht, seen, fuel) ==
  LET valid == HTIterator_is_valid(hti, ht)
  IN  IF valid.ub THEN [seen |-> seen, ended |-> FALSE, ub |-> TRUE]
      ELSE IF ~valid.ret THEN [seen |-> seen, ended |-> TRUE, ub |-> FALSE]
      ELSE IF fuel = 0 THEN [seen |-> seen, ended |-> FALSE, ub |-> FALSE]
      ELSE
        LET got == HTIterator_get(hti, ht)
        IN  CoverageLoop(HTIterator_next(hti, ht).hti, ht,
                         Append(seen, [key     |-> got.key_out,
                                       key_len |-> got.key_len_out,
                                       value   |-> got.value_out]),
                         fuel - 1)

\* one round more than the table has entries
iterator_coverage(ht) ==
  CoverageLoop(HTIterator_allocate(ht).hti, ht, <<>>, ht.num_elems + 1)

RECURSIVE RemoveLoop(_, _, _, _, _)
RemoveLoop(hti, ht, past_end, seen, fuel) ==
  LET valid == HTIterator_is_valid(hti, ht)
  IN  IF valid.ub THEN
        [seen |-> seen, ht |-> ht, ended |-> FALSE, ub |-> TRUE]
      ELSE IF ~valid.ret THEN
        [seen |-> seen, ht |-> ht, ended |-> TRUE, ub |-> FALSE]
      ELSE IF fuel = 0 THEN
        [seen |-> seen, ht |-> ht, ended |-> FALSE, ub |-> FALSE]
      ELSE
        LET r     == HTIterator_remove(hti, ht, past_end)
            seen2 == Append(seen,
                            IF r.wrote
                            THEN [key |-> r.key_out, key_len |-> r.key_len_out,
                                  wrote |-> TRUE, value |-> r.value_out]
                            ELSE [key |-> r.key_out, key_len |-> r.key_len_out,
                                  wrote |-> FALSE])
        IN  IF Dangling(r.hti, r.ht) THEN
              [seen |-> seen2, ht |-> r.ht, ended |-> FALSE, ub |-> TRUE]
            ELSE RemoveLoop(r.hti, r.ht, past_end, seen2, fuel - 1)

iterator_remove(ht, past_end) ==
  RemoveLoop(HTIterator_allocate(ht).hti, ht, past_end, <<>>,
             ht.num_elems + 1)

\* A caller that, while HTIterator_is_valid holds, reads the entry with
\* HTIterator_get and then calls HTIterator_remove (removes[i] for the i-th
\* entry met) or HTIterator_next.  `seen` lists the entries HTIterator_get
\* reported; `steps` is the domain of `removes`.
RECURSIVE NextOrRemoveLoop(_, _, _, _, _)
NextOrRemoveLoop(hti, ht, removes, past_end, seen) ==
  LET valid == HTIterator_is_valid(hti, ht)
      i     == Len(seen) + 1
  IN  IF valid.ub THEN
        [seen |-> seen, ht |-> ht, ended |-> FALSE, ub |-> TRUE]
      ELSE IF ~valid.ret THEN
        [seen |-> seen, ht |-> ht, ended |-> TRUE, ub |-> FALSE]
      ELSE IF i \notin DOMAIN removes THEN
        [seen |-> seen, ht |-> ht, ended |-> FALSE, ub |-> FALSE]
      ELSE
        LET got   == HTIterator_get(hti, ht)
            seen2 == Append(seen, [key |-> got.key_out,
                                   value |-> got.value_out,
                                   removed |-> removes[i]])
        IN  IF removes[i] THEN
              LET r == HTIterator_remove(hti, ht, past_end)
              IN  IF Dangling(r.hti, r.ht) THEN
                    [seen |-> seen2, ht |-> r.ht, ended |-> FALSE,
                     ub |-> TRUE]
                  ELSE NextOrRemoveLoop(r.hti, r.ht, removes, past_end,
                                        seen2)
            ELSE
              NextOrRemoveLoop(HTIterator_next(hti, ht).hti, ht, removes,
                               past_end, seen2)

next_or_remove(ht, removes, past_end) ==
  NextOrRemoveLoop(HTIterator_allocate(ht).hti, ht, removes, past_end, <<>>)

-----------------------------------------------------------------------------
(* What a table holds, read off its buckets' chains. *)

\* the node addresses met from n by following next, at most `fuel` of them
RECURSIVE ChainFrom(_, _, _)
ChainFrom(list, n, fuel) ==
  IF n = NULL \/ fuel = 0 \/ n \notin DOMAIN list.node THEN <<>>
  ELSE <<n>> \o ChainFrom(list, list.node[n].next, fuel - 1)

Chain(list) == ChainFrom(list, list.head, Cardinality(DOMAIN list.node) + 1)

\* the payloads of a list, from head to tail
Payloads(list) ==
  LET ch == Chain(list)
  IN  [i \in 1..Len(ch) |-> list.node[ch[i]].payload]

\* where the entries of ht are: bucket and position in the bucket's chain
EntriesOf(ht) ==
  UNION {{<<b, i>> : i \in 1..Len(Chain(ht.buckets[b]))} :
           b \in DOMAIN ht.buckets}

EntryAt(ht, p) == Payloads(ht.buckets[p[1]])[p[2]]

\* the keys (byte strings) present, and the (key, value) pairs
Contents(ht) ==
  UNION {LET ps == Payloads(ht.buckets[b])
         IN  {<<ps[i].key, ps[i].value>> : i \in 1..Len(ps)} :
           b \in DOMAIN ht.buckets}

PresentKeys(ht) == {c[1] : c \in Contents(ht)}

\* the bytes that (k, key_len) denotes for a null-terminated k
KeyBytes(k, key_len) == IF key_len = 0 THEN k ELSE SubSeq(k, 1, key_len)

\* the value that `contents`, the Contents of a table, gives the key `bytes`
Lookup(contents, bytes) == (CHOOSE c \in contents : c[1] = bytes)[2]

-----------------------------------------------------------------------------
(* Properties, by claim identifier. *)

\* C1: after any sequence of HashTable_insert, HashTable_remove and
\* HTIterator_remove calls that returned, HashTable_num_elements is the
\* number of distinct keys present; an insert of an absent key adds one, an
\* overwriting insert adds zero, a successful remove subtracts one and a
\* failed remove subtracts zero.
C1_CountIsDistinctKeys ==
  ~undef =>
    LET keys == PresentKeys(table)
    IN  /\ HashTable_num_elements(table) = Cardinality(keys)
        /\ \A k \in Keys : \A key_len \in KeyLens(k) :
             LET present  == KeyBytes(k, key_len) \in keys
                 inserted == HashTable_insert(table, CString(k), key_len, 1,
                                              TRUE)
                 removed  == HashTable_remove(table, CString(k), key_len,
                                              TRUE)
             IN  /\ HashTable_num_elements(inserted.ht)
                      = HashTable_num_elements(table)
                          + (IF present THEN 0 ELSE 1)
                 /\ removed.ret = present
                 /\ HashTable_num_elements(removed.ht)
                      = HashTable_num_elements(table)
                          - (IF present THEN 1 ELSE 0)

\* an HTIterator_remove has just returned true and left one key in the table
C1_Witness ==
  /\ ~undef
  /\ ret.op = "iter_remove" /\ ret.rv
  /\ HashTable_num_elements(table) = 1
  /\ Cardinality(PresentKeys(table)) = 1

\* C2: HashTable_insert on a key that is present returns true, stores the
\* value the key held before through old_value when the caller passes a slot
\* (and stores nothing otherwise), leaves the element count unchanged, and a
\* HashTable_find on the key then yields the new value.
C2_OverwritingInsert ==
  ~undef =>
    LET held == Contents(table)
    IN  \A k \in Keys : \A key_len \in KeyLens(k) :
          KeyBytes(k, key_len) \in {c[1] : c \in held} =>
            \A v \in Values : \A old_value \in BOOLEAN :
              LET r    == HashTable_insert(table, CString(k), key_len, v,
                                           old_value)
                  slot == HashTable_find(r.ht, CString(k), key_len)
              IN  /\ r.ret
                  /\ r.wrote = old_value
                  /\ old_value => r.out = Lookup(held, KeyBytes(k, key_len))
                  /\ HashTable_num_elements(r.ht)
                       = HashTable_num_elements(table)
                  /\ slot # NULL_PTR
                  /\ ValueAt(r.ht, slot) = v

\* an insert has just overwritten value 1 by value 2 in a table of two keys,
\* and reported the 1
C2_Witness ==
  /\ ~undef
  /\ ret.op = "insert" /\ ret.rv /\ ret.wrote /\ ret.out = 1
  /\ HashTable_num_elements(table) = 2
  /\ \A c \in Contents(table) : c[2] = 2

\* C3: HashTable_remove on a key that is present returns true, stores through
\* old_value the value the table held for the key, decrements the element
\* count by one, leaves every other key's mapping unchanged, and a
\* HashTable_find on the removed key then returns NULL.  The value the table
\* holds for a key is the one most recently inserted for it: an insert sets
\* it to new_value and changes no other key's.
C3_RemovePresent ==
  ~undef =>
    LET held == Contents(table)
    IN  \A k \in Keys : \A key_len \in KeyLens(k) :
          LET bytes == KeyBytes(k, key_len)
              r     == HashTable_remove(table, CString(k), key_len, TRUE)
          IN  /\ bytes \in {c[1] : c \in held} =>
                    /\ r.ret /\ ~r.fault
                    /\ r.wrote /\ r.out = Lookup(held, bytes)
                    /\ HashTable_num_elements(r.ht)
                         = HashTable_num_elements(table) - 1
                    /\ Contents(r.ht) = held \ {<<bytes, r.out>>}
                    /\ HashTable_find(r.ht, CString(k), key_len) = NULL_PTR
              /\ \A v \in Values :
                   LET i == HashTable_insert(table, CString(k), key_len, v,
                                             TRUE)
                   IN  Contents(i.ht)
                         = {c \in held : c[1] # bytes} \cup {<<bytes, v>>}

\* a remove has just returned true and reported the value 2, leaving the one
\* other key of the table with its value 1
C3_Witness ==
  /\ ~undef
  /\ ret.op = "remove" /\ ret.rv /\ ret.wrote /\ ret.out = 2
  /\ HashTable_num_elements(table) = 1
  /\ \A c \in Contents(table) : c[2] = 1

\* C4: the loop that allocates an iterator and calls HTIterator_get and
\* HTIterator_next while HTIterator_is_valid holds makes as many visits as
\* the table has keys, no two of them to the same key, and each visit reports
\* a key of the table with its length and the value stored for it, however
\* the keys lie in the buckets.  The loop ends by HTIterator_is_valid
\* returning false, except on the iterator of an empty table, whose
\* indeterminate table field is read before any visit.
C4_IterationCoversTable ==
  ~undef =>
    LET t == iterator_coverage(table)
        N == Cardinality(PresentKeys(table))
    IN  /\ Len(t.seen) = N
        /\ HashTable_num_elements(table) = N
        /\ \A i, j \in 1..Len(t.seen) : i # j => t.seen[i].key # t.seen[j].key
        /\ {<<t.seen[i].key, t.seen[i].value>> : i \in 1..Len(t.seen)}
             = Contents(table)
        /\ \A i \in 1..Len(t.seen) : t.seen[i].key_len = Len(t.seen[i].key)
        /\ t.ub = (N = 0)
        /\ ~t.ub => t.ended

\* a caller's iterator has been stepped off the end of a table of three
\* keys, two of them in one bucket and six buckets empty
C4_Witness ==
  /\ ~undef
  /\ HashTable_num_elements(table) = 3
  /\ ret.op = "iter_next" /\ ret.rv = FALSE
  /\ tableIter # NULL_HTI
  /\ tableIter.bucket_iter = NULL_ITER /\ tableIter.bucket_idx = 7
  /\ Len(iterator_coverage(table).seen) = 3
  /\ Cardinality({b \in DOMAIN table.buckets :
                    LinkedList_num_elements(table.buckets[b]) = 0}) = 6

\* C5: the loop that allocates an iterator and calls HTIterator_remove while
\* HTIterator_is_valid holds makes as many removals as the table has keys,
\* each reporting another key of the table with its value; afterwards
\* HashTable_find returns NULL for every key the table held and
\* HashTable_num_elements is 0.
C5_IteratorRemoveEmptiesTable ==
  ~undef =>
    \A past_end \in PastEnd :
      LET t == iterator_remove(table, past_end)
      IN  /\ Len(t.seen) = Cardinality(PresentKeys(table))
          /\ \A i, j \in 1..Len(t.seen) :
               i # j => t.seen[i].key # t.seen[j].key
          /\ \A i \in 1..Len(t.seen) : t.seen[i].wrote
          /\ {<<t.seen[i].key, t.seen[i].value>> : i \in 1..Len(t.seen)}
               = Contents(table)
          /\ \A k \in PresentKeys(table) :
               HashTable_find(t.ht, CString(k), Len(k)) = NULL_PTR
          /\ HashTable_num_elements(t.ht) = 0

\* the position of node address a in the sequence of addresses ch
PositionIn(ch, a) == CHOOSE i \in 1..Len(ch) : ch[i] = a

\* ch without its i-th element
Without(ch, i) == SubSeq(ch, 1, i - 1) \o SubSeq(ch, i + 1, Len(ch))

\* C6: LLIterator_remove on a valid cursor returns true and the designated
\* node's payload, removes that node and no other, keeps the remaining nodes
\* in their order with their payloads, and leaves the cursor invalid when the
\* node was the only one, on the former predecessor when it was the tail of
\* two or more, and on the former successor otherwise.
C6_CursorRemove ==
  (theCursor # NULL_ITER /\ LLIterator_is_valid(theCursor)) =>
    LET c  == theCursor.current
        ch == Chain(theList)
        i  == PositionIn(ch, c)
        r  == LLIterator_remove(theCursor, theList, TRUE)
    IN  /\ c \in {ch[j] : j \in 1..Len(ch)}
        /\ r.ret /\ r.wrote
        /\ r.out = theList.node[c].payload
        /\ Chain(r.list) = Without(ch, i)
        /\ DOMAIN r.list.node = DOMAIN theList.node \ {c}
        /\ \A a \in DOMAIN r.list.node :
             r.list.node[a].payload = theList.node[a].payload
        /\ LinkedList_num_elements(r.list)
             = LinkedList_num_elements(theList) - 1
        /\ r.lli.current = IF Len(ch) = 1 THEN NULL
                           ELSE IF i = Len(ch) THEN ch[i - 1]
                           ELSE ch[i + 1]
        /\ LLIterator_is_valid(r.lli) = (Len(ch) > 1)

\* a cursor has just removed the tail of a list of three nodes and now
\* designates the new tail, the removed node's predecessor
C6_Witness ==
  /\ listRet.op = "iter_remove" /\ listRet.ret
  /\ listRet.succ = NULL /\ listRet.pred # NULL
  /\ LinkedList_num_elements(theList) = 2
  /\ theCursor.current = listRet.pred
  /\ theCursor.current = theList.tail

\* C7: no bucket holds two entries with the same hash, key bytes and key
\* length, and no key is held twice in the whole table (the table has as
\* many entries as distinct keys), also right after an insert of a key that
\* was present.
C7_NoDuplicateKeys ==
  ~undef =>
    /\ \A b \in DOMAIN table.buckets :
         LET ps == Payloads(table.buckets[b])
         IN  \A i, j \in 1..Len(ps) :
               i # j => <<ps[i].hash, ps[i].key, ps[i].key_len>>
                          # <<ps[j].hash, ps[j].key, ps[j].key_len>>
    /\ Cardinality(PresentKeys(table)) = Cardinality(EntriesOf(table))
    /\ \A k \in Keys : \A key_len \in KeyLens(k) : \A v \in Values :
         LET r == HashTable_insert(table, CString(k), key_len, v, TRUE)
         IN  Cardinality(PresentKeys(r.ht)) = Cardinality(EntriesOf(r.ht))

\* an insert has just overwritten a key that shares its bucket with another
\* key: the bucket holds two entries, of different keys
C7_Witness ==
  /\ ~undef
  /\ ret.op = "insert" /\ ret.rv
  /\ LinkedList_num_elements(table.buckets[7]) = 2
  /\ Cardinality({EntryAt(table, p).key :
                    p \in {q \in EntriesOf(table) : q[1] = 7}}) = 2

\* C8: the table's num_elems is the sum of LinkedList_num_elements over its
\* buckets.
C8_CountIsSumOfBuckets ==
  ~undef => HashTable_num_elements(table) = SumOfBuckets(table, 0)

\* an HTIterator_remove has just returned true on a table that still holds
\* two entries, in different buckets
C8_Witness ==
  /\ ~undef
  /\ ret.op = "iter_remove" /\ ret.rv
  /\ HashTable_num_elements(table) = 2
  /\ LinkedList_num_elements(table.buckets[5]) = 1
  /\ LinkedList_num_elements(table.buckets[7]) = 1

\* what HashTable_find yields: NULL, or the value in the slot it returned
Found(ht, key, key_len) ==
  LET slot == HashTable_find(ht, key, key_len)
  IN  IF slot = NULL_PTR THEN NULL_PTR ELSE [slot |-> slot,
                                             value |-> ValueAt(ht, slot)]

\* C9: for a null-terminated key k, HashTable_find with key_len 0 and with
\* key_len strlen(k) return the same; an entry inserted with one of the two
\* lengths is found, and removed, with the other; the stored key bytes are
\* the strlen(k) bytes before the terminator.
C9_SentinelLength ==
  ~undef =>
    /\ \A k \in Keys :
         LET key == CString(k)
             n   == Len(k)
         IN  /\ Found(table, key, 0) = Found(table, key, n)
             /\ HashTable_remove(table, key, 0, TRUE)
                  = HashTable_remove(table, key, n, TRUE)
             /\ \A v \in Values :
                  LET by0  == HashTable_insert(table, key, 0, v, TRUE)
                      byn  == HashTable_insert(table, key, n, v, TRUE)
                      got0 == Found(by0.ht, key, 0)
                      gotn == Found(by0.ht, key, n)
                      rem0 == HashTable_remove(by0.ht, key, 0, TRUE)
                      remn == HashTable_remove(by0.ht, key, n, TRUE)
                  IN  /\ by0 = byn
                      /\ gotn # NULL_PTR /\ gotn.value = v
                      /\ got0 = gotn
                      /\ remn.ret /\ remn.out = v
                      /\ rem0 = remn
                      /\ k \in PresentKeys(by0.ht)
    /\ \A b \in DOMAIN table.buckets :
         LET ps == Payloads(table.buckets[b])
         IN  \A i \in 1..Len(ps) :
               /\ Len(ps[i].key) = ps[i].key_len
               /\ \A j \in 1..Len(ps[i].key) : ps[i].key[j] # 0

\* a find has just succeeded on a table whose only key is the two-byte key
\* "hb", stored as two bytes and found with either length
C9_Witness ==
  /\ ~undef
  /\ ret.op = "find" /\ ret.rv # NULL_PTR
  /\ PresentKeys(table) = {<<104, 98>>}
  /\ Found(table, CString(<<104, 98>>), 0) # NULL_PTR
  /\ Found(table, CString(<<104, 98>>), 0)
       = Found(table, CString(<<104, 98>>), 2)
  /\ \A p \in EntriesOf(table) : EntryAt(table, p).key_len = 2

\* C10: HashTable_remove on a key that is not present returns false, leaves
\* the table as it was (every bucket, its order, and the element count) and
\* stores nothing through old_value.
C10_RemoveAbsent ==
  ~undef =>
    LET keys == PresentKeys(table)
    IN  \A k \in Keys \cup {<<255>>} : \A key_len \in KeyLens(k) :
          KeyBytes(k, key_len) \notin keys =>
            \A old_value \in BOOLEAN :
              LET r == HashTable_remove(table, CString(k), key_len,
                                        old_value)
              IN  /\ ~r.ret
                  /\ ~r.wrote /\ ~r.fault
                  /\ r.ht = table

\* a remove has just returned false on a table that holds "" and "h": the
\* key asked for was "hb", whose bucket holds the entry of "h"
C10_Witness ==
  /\ ~undef
  /\ ret.op = "remove" /\ ~ret.rv /\ ~ret.wrote
  /\ PresentKeys(table) = {<<>>, <<104>>}
  /\ LinkedList_num_elements(table.buckets[7]) = 1

\* C11: HashTable_insert on a key that is not present returns false, stores
\* nothing through old_value, increments the element count by one, and a
\* HashTable_find on the key then yields the inserted value.
C11_InsertAbsent ==
  ~undef =>
    LET keys == PresentKeys(table)
    IN  \A k \in Keys : \A key_len \in KeyLens(k) :
          KeyBytes(k, key_len) \notin keys =>
            \A v \in Values : \A old_value \in BOOLEAN :
              LET r    == HashTable_insert(table, CString(k), key_len, v,
                                           old_value)
                  slot == HashTable_find(r.ht, CString(k), key_len)
              IN  /\ ~r.ret
                  /\ ~r.wrote
                  /\ HashTable_num_elements(r.ht)
                       = HashTable_num_elements(table) + 1
                  /\ slot # NULL_PTR
                  /\ ValueAt(r.ht, slot) = v

\* an insert has just returned false and stored nothing, and the table now
\* holds two keys in one bucket
C11_Witness ==
  /\ ~undef
  /\ ret.op = "insert" /\ ~ret.rv /\ ~ret.wrote
  /\ PresentKeys(table) = {<<104>>, <<104, 98>>}
  /\ LinkedList_num_elements(table.buckets[7]) = 2

\* C12: HashTable_find returns NULL exactly when the key is absent, and a
\* step that is a HashTable_find call leaves the table (every bucket's
\* nodes, their order, and the element count) as it was.
C12_FindIsPure ==
  /\ [](~undef =>
          LET keys == PresentKeys(table)
          IN  \A k \in Keys \cup {<<255>>} : \A key_len \in KeyLens(k) :
                (HashTable_find(table, CString(k), key_len) = NULL_PTR)
                  <=> (KeyBytes(k, key_len) \notin keys))
  /\ [][ret'.op = "find" => table' = table]_vars

\* a find has just returned NULL on a table that holds "" and "h": the key
\* asked for was "hb", whose bucket holds the entry of "h"
C12_Witness ==
  /\ ~undef
  /\ ret.op = "find" /\ ret.rv = NULL_PTR
  /\ PresentKeys(table) = {<<>>, <<104>>}
  /\ LinkedList_num_elements(table.buckets[7]) = 1

\* C13: HashTable_insert, HashTable_find and HashTable_remove given a null
\* table or a null key return false / NULL, store nothing through old_value
\* and change no table; HashTable_num_elements(NULL) is -1 and
\* HTIterator_allocate(NULL) is NULL.
C13_NullArguments ==
  /\ [](~undef =>
          /\ \A key \in {CString(k) : k \in Keys} \cup {NULL_PTR} :
               \A key_len \in 0..2 : \A old_value \in BOOLEAN :
                 /\ \A v \in Values :
                      HashTable_insert(NULL_HT, key, key_len, v, old_value)
                        = [ht |-> NULL_HT, ret |-> FALSE, wrote |-> FALSE]
                 /\ HashTable_remove(NULL_HT, key, key_len, old_value)
                      = [ht |-> NULL_HT, ret |-> FALSE, wrote |-> FALSE,
                         fault |-> FALSE, freed |-> {}]
                 /\ HashTable_find(NULL_HT, key, key_len) = NULL_PTR
          /\ \A key_len \in 0..2 : \A old_value \in BOOLEAN :
               /\ \A v \in Values :
                    HashTable_insert(table, NULL_PTR, key_len, v, old_value)
                      = [ht |-> table, ret |-> FALSE, wrote |-> FALSE]
               /\ HashTable_remove(table, NULL_PTR, key_len, old_value)
                    = [ht |-> table, ret |-> FALSE, wrote |-> FALSE,
                       fault |-> FALSE, freed |-> {}]
               /\ HashTable_find(table, NULL_PTR, key_len) = NULL_PTR
          /\ HashTable_num_elements(NULL_HT) = -1
          /\ HTIterator_allocate(NULL_HT) = [hti |-> NULL_HTI, fault |-> FALSE])
  /\ [][ret'.op \in {"insert_null", "remove_null", "find_null", "num_elements",
                     "iter_allocate_null"}
          => table' = table /\ tableIter' = tableIter /\ ~undef']_vars

\* an insert with a null key has just returned false on a table of two keys
C13_Witness ==
  /\ ~undef
  /\ ret.op = "insert_null" /\ ~ret.null_table
  /\ ~ret.rv /\ ~ret.wrote
  /\ HashTable_num_elements(table) = 2

\* C14: on the iterator that HTIterator_allocate returns for a table with no
\* entries, HTIterator_is_valid, HTIterator_next, HTIterator_get and
\* HTIterator_remove return false, reading nothing indeterminate, and leave
\* the iterator and the table as they were.
C14_EmptyTableIterator ==
  (~undef /\ HashTable_num_elements(table) = 0) =>
    LET a       == HTIterator_allocate(table)
        valid   == HTIterator_is_valid(a.hti, table)
        next    == HTIterator_next(a.hti, table)
        got     == HTIterator_get(a.hti, table)
        removed == HTIterator_remove(a.hti, table, NULL_PTR)
    IN  /\ a.hti # NULL_HTI /\ ~a.fault
        /\ ~valid.ret /\ ~valid.ub
        /\ ~next.ret /\ ~next.ub /\ next.hti = a.hti
        /\ ~got.ret /\ ~got.ub
        /\ ~removed.ret /\ ~removed.ub
        /\ removed.hti = a.hti /\ removed.ht = table

\* C15: for every valid position of an iterator, whatever the entry it
\* designates (the one with the empty key included), HTIterator_remove
\* returns true, reports the entry's key, key length and value, removes that
\* entry and no other (the count falls by one, HashTable_find on the key
\* returns NULL), and leaves the iterator where HTIterator_next would have
\* put it.
C15_IteratorRemove ==
  (/\ ~undef
   /\ tableIter # NULL_HTI
   /\ HTIterator_is_valid(tableIter, table).ret) =>
    \A past_end \in ReadPastEnd(tableIter, table) :
      LET entry == Designated(tableIter, table)
          r     == HTIterator_remove(tableIter, table, past_end)
      IN  /\ r.ret /\ ~r.ub
          /\ r.key_out = entry.key
          /\ r.key_len_out = entry.key_len
          /\ r.wrote /\ r.value_out = entry.value
          /\ Contents(r.ht) = Contents(table) \ {<<entry.key, entry.value>>}
          /\ HashTable_num_elements(r.ht) = HashTable_num_elements(table) - 1
          /\ HashTable_find(r.ht, CString(entry.key), entry.key_len)
               = NULL_PTR
          /\ r.hti = HTIterator_next(tableIter, table).hti
          /\ ~Dangling(r.hti, r.ht)

\* C16: a HashTable_remove that finds its key frees, with the entry, the
\* copy of the key bytes the entry owns: every block of the removed entry
\* (list node, HTEntry, key copy) has been freed when the call returns.
C16_RemoveFreesKeyCopy ==
  ~undef =>
    \A k \in Keys : \A key_len \in KeyLens(k) :
      LET slot == HashTable_find(table, CString(k), key_len)
          r    == HashTable_remove(table, CString(k), key_len, TRUE)
      IN  slot # NULL_PTR =>
            /\ r.ret
            /\ BlocksOf(slot.bucket, slot.node) \subseteq r.freed

\* C17: HashTable_free with a destructor calls it exactly once for the value
\* of each entry still in the table and for no value that an overwriting
\* HashTable_insert, a HashTable_remove or an HTIterator_remove handed back
\* before; without a destructor it disposes of no value; either way every
\* remaining entry and its key copy are freed.
C17_TeardownState ==
  ~undef =>
    LET with     == HashTable_free(table, TRUE)
        without  == HashTable_free(table, FALSE)
        calls    == with.disposed
        contents == Contents(table)
        PairsOf(d) == {<<d[i].key, d[i].value>> : i \in 1..Len(d)}
    IN  /\ Len(calls) = HashTable_num_elements(table)
        /\ Cardinality(contents) = Len(calls)
        /\ PairsOf(calls) = contents
        /\ without.disposed = <<>>
        /\ \A b \in DOMAIN table.buckets :
             LET ch == Chain(table.buckets[b])
             IN  \A i \in 1..Len(ch) :
                   /\ BlocksOf(b, ch[i]) \subseteq with.freed
                   /\ BlocksOf(b, ch[i]) \subseteq without.freed
        /\ \A k \in Keys : \A key_len \in KeyLens(k) :
             LET bytes == KeyBytes(k, key_len)
                 rem   == HashTable_remove(table, CString(k), key_len, TRUE)
                 after == HashTable_free(rem.ht, TRUE).disposed
             IN  /\ rem.wrote =>
                      /\ Len(after) = Len(calls) - 1
                      /\ PairsOf(after) = contents \ {<<bytes, rem.out>>}
                 /\ \A v \in Values :
                      LET ins  == HashTable_insert(table, CString(k), key_len,
                                                   v, TRUE)
                          then == HashTable_free(ins.ht, TRUE).disposed
                      IN  ins.wrote =>
                            /\ Len(then) = Len(calls)
                            /\ PairsOf(then)
                                 = (contents \ {<<bytes, ins.out>>})
                                     \cup {<<bytes, v>>}
        /\ (tableIter # NULL_HTI /\ HTIterator_is_valid(tableIter, table).ret)
             => \A past_end \in ReadPastEnd(tableIter, table) :
                  LET r     == HTIterator_remove(tableIter, table, past_end)
                      after == HashTable_free(r.ht, TRUE).disposed
                  IN  r.wrote =>
                        /\ Len(after) = Len(calls) - 1
                        /\ \E c \in contents :
                             /\ c[2] = r.value_out
                             /\ PairsOf(after) = contents \ {c}

C17_Teardown ==
  /\ []C17_TeardownState
  /\ [][ret'.op = "free" =>
          LET d == ret'.disposed
          IN  /\ Len(d) = IF ret'.value_free
                          THEN HashTable_num_elements(table) ELSE 0
              /\ {<<d[i].key, d[i].value>> : i \in 1..Len(d)}
                   = IF ret'.value_free THEN Contents(table) ELSE {}
              /\ \A b \in DOMAIN table.buckets :
                   LET ch == Chain(table.buckets[b])
                   IN  \A i \in 1..Len(ch) :
                         BlocksOf(b, ch[i]) \subseteq ret'.freed
              /\ HashTable_num_elements(table') = 0]_vars

C17_Witness ==
  /\ ret.op = "free"
  /\ ret.value_free
  /\ Len(ret.disposed) = 3
  /\ \E n \in 1..NumKeys : \E m \in 1..NumKeys :
       /\ n # m
       /\ BlocksOf(DEFAULT_BUCKETS - 1, n) \subseteq ret.freed
       /\ BlocksOf(DEFAULT_BUCKETS - 1, m) \subseteq ret.freed

\* C18: when an allocation fails inside HashTable_allocate, HashTable_insert,
\* HashTable_find, HashTable_remove or HTIterator_allocate, the call returns
\* a value that tells the caller so (one that the call does not return when
\* its allocations succeed), it neither stores through nor keeps the null
\* pointer the allocation returned, and the table's num_elems stays the sum
\* of its buckets' sizes.
C18_AllocationFailure ==
  /\ ~undef => HashTable_num_elements(table) = SumOfBuckets(table, 0)
  /\ ret.op \in {"insert_fails", "find_fails", "remove_fails",
                 "iter_allocate_fails"} => ~ret.fault
  /\ ret.op = "insert_fails" => ret.rv # ret.complete
  /\ \A failed \in AllocationsOfAllocate :
       \A i \in 0..(DEFAULT_BUCKETS - 1) :
         LET ht == HashTable_allocate_failing(failed, i)
         IN  \/ ht = NULL_HT
             \/ \A b \in DOMAIN ht.buckets : ht.buckets[b] # NULL_LIST

\* C19: in every state that prepend, append, pop_head, pop_tail and
\* LLIterator_remove reach, LinkedList_num_elements is the number of nodes
\* on the next chain from head; a call that succeeds changes it by +1
\* (prepend, append) or by -1 (pop_head, pop_tail, LLIterator_remove), and a
\* call that fails leaves it as it was.
C19_CountIsChainLength ==
  /\ [](LinkedList_num_elements(theList) = Len(Chain(theList)))
  /\ [][LET before == LinkedList_num_elements(theList)
            after  == LinkedList_num_elements(theList')
            op     == listRet'.op
        IN  /\ (op \in {"prepend", "append"} /\ listRet'.ret)
                 => after = before + 1
            /\ (op \in {"pop_head", "pop_tail", "iter_remove"}
                  /\ listRet'.ret)
                 => after = before - 1
            /\ (/\ op \in {"prepend", "append", "pop_head", "pop_tail",
                           "iter_remove", "prepend_fails", "append_fails",
                           "pop_head_null_list", "pop_head_null_out",
                           "pop_tail_null_list", "pop_tail_null_out"}
                /\ ~listRet'.ret)
                 => after = before /\ Chain(theList') = Chain(theList)]_vars

C19_Witness ==
  /\ listRet.op = "iter_remove"
  /\ listRet.ret
  /\ listRet.pred # NULL
  /\ listRet.succ # NULL
  /\ LinkedList_num_elements(theList) = 2
  /\ Len(Chain(theList)) = 2

\* C20: LinkedList_pop_head and LinkedList_pop_tail return false, leave the
\* list as it is and do not store through payload_out when the list is null,
\* when the list is empty, and when payload_out is null.
C20_PopRefusals ==
  /\ [](LET refused(list) == [list |-> list, ret |-> FALSE, wrote |-> FALSE]
        IN  /\ \A payload_out \in BOOLEAN :
                 /\ LinkedList_pop_head(NULL_LIST, payload_out)
                      = refused(NULL_LIST)
                 /\ LinkedList_pop_tail(NULL_LIST, payload_out)
                      = refused(NULL_LIST)
            /\ LinkedList_pop_head(theList, FALSE) = refused(theList)
            /\ LinkedList_pop_tail(theList, FALSE) = refused(theList)
            /\ Chain(theList) = <<>> =>
                 /\ LinkedList_pop_head(theList, TRUE) = refused(theList)
                 /\ LinkedList_pop_tail(theList, TRUE) = refused(theList))
  /\ [][(\/ listRet'.op \in {"pop_head_null_list", "pop_head_null_out",
                             "pop_tail_null_list", "pop_tail_null_out"}
         \/ /\ listRet'.op \in {"pop_head", "pop_tail"}
            /\ Chain(theList) = <<>>)
          => /\ ~listRet'.ret
             /\ ~listRet'.wrote
             /\ theList' = theList]_vars

C20_Witness ==
  /\ listRet.op = "pop_tail"
  /\ ~listRet.ret
  /\ ~listRet.wrote
  /\ Chain(theList) = <<>>
  /\ LinkedList_num_elements(theList) = 0

\* C21: LLIterator_remove returns false, leaves the list and the cursor's
\* position as they are and does not store through payload_out when the
\* cursor is null, when the cursor is invalid, and when payload_out is null.
C21_CursorRemoveRefusals ==
  /\ [](LET refused(lli) == [lli |-> lli, list |-> theList, ret |-> FALSE,
                             wrote |-> FALSE]
        IN  /\ \A payload_out \in BOOLEAN :
                 LLIterator_remove(NULL_ITER, theList, payload_out)
                   = refused(NULL_ITER)
            /\ LLIterator_remove(theCursor, theList, FALSE)
                 = refused(theCursor)
            /\ ~LLIterator_is_valid(theCursor) =>
                 LLIterator_remove(theCursor, theList, TRUE)
                   = refused(theCursor))
  /\ [][(\/ listRet'.op \in {"iter_remove_null_cursor",
                             "iter_remove_null_out"}
         \/ /\ listRet'.op = "iter_remove"
            /\ ~LLIterator_is_valid(theCursor))
          => /\ ~listRet'.ret
             /\ ~listRet'.wrote
             /\ theList' = theList
             /\ theCursor' = theCursor]_vars

C21_Witness ==
  /\ listRet.op = "iter_remove"
  /\ ~listRet.ret
  /\ ~listRet.wrote
  /\ theCursor # NULL_ITER
  /\ ~LLIterator_is_valid(theCursor)
  /\ LinkedList_num_elements(theList) = 2

\* C22: LLIterator_next / LLIterator_prev move a valid cursor to the next /
\* previous node of the chain and return whether the cursor is valid
\* afterwards, so next from the tail and prev from the head leave it
\* invalid; on an invalid or null cursor both return false and leave it as
\* it is.  Neither changes the list.
C22_CursorSteps ==
  /\ [](LET ch == Chain(theList)
            at(i) == IF i \in 1..Len(ch) THEN ch[i] ELSE NULL
        IN  /\ LLIterator_next(NULL_ITER, theList)
                 = [lli |-> NULL_ITER, ret |-> FALSE]
            /\ LLIterator_prev(NULL_ITER, theList)
                 = [lli |-> NULL_ITER, ret |-> FALSE]
            /\ (theCursor # NULL_ITER /\ ~LLIterator_is_valid(theCursor)) =>
                 /\ LLIterator_next(theCursor, theList)
                      = [lli |-> theCursor, ret |-> FALSE]
                 /\ LLIterator_prev(theCursor, theList)
                      = [lli |-> theCursor, ret |-> FALSE]
            /\ LLIterator_is_valid(theCursor) =>
                 LET i    == PositionIn(ch, theCursor.current)
                     next == LLIterator_next(theCursor, theList)
                     prev == LLIterator_prev(theCursor, theList)
                 IN  /\ ch[i] = theCursor.current
                     /\ next.lli.current = at(i + 1)
                     /\ next.ret = LLIterator_is_valid(next.lli)
                     /\ next.ret = (i < Len(ch))
                     /\ prev.lli.current = at(i - 1)
                     /\ prev.ret = LLIterator_is_valid(prev.lli)
                     /\ prev.ret = (i > 1)
                     /\ next.lli.list = theCursor.list
                     /\ prev.lli.list = theCursor.list)
  /\ [][listRet'.op \in {"iter_next", "iter_prev", "iter_next_null",
                         "iter_prev_null"}
          => /\ theList' = theList
             /\ listRet'.ret = (listRet'.op \in {"iter_next", "iter_prev"}
                                  /\ LLIterator_is_valid(theCursor'))]_vars

\* the cursor ran off the tail of a list of three
C22_Witness ==
  /\ listRet.op = "iter_next"
  /\ ~listRet.ret
  /\ theCursor # NULL_ITER
  /\ ~LLIterator_is_valid(theCursor)
  /\ Len(Chain(theList)) = 3

\* C23: on a list with one or more nodes LLIterator_rewind /
\* LLIterator_fast_forward return true and leave the cursor on the head /
\* tail node wherever it was, an invalid cursor that ran off an end
\* included; on an empty list or a null cursor they return false and the
\* cursor stays invalid.
C23_CursorJumps ==
  /\ [](LET ch == Chain(theList)
        IN  /\ LLIterator_rewind(NULL_ITER, theList)
                 = [lli |-> NULL_ITER, ret |-> FALSE]
            /\ LLIterator_fast_forward(NULL_ITER, theList)
                 = [lli |-> NULL_ITER, ret |-> FALSE]
            /\ theCursor # NULL_ITER =>
                 LET rewind == LLIterator_rewind(theCursor, theList)
                     ff     == LLIterator_fast_forward(theCursor, theList)
                 IN  IF ch = <<>>
                     THEN /\ rewind = [lli |-> theCursor, ret |-> FALSE]
                          /\ ff = [lli |-> theCursor, ret |-> FALSE]
                          /\ ~LLIterator_is_valid(theCursor)
                     ELSE /\ rewind.ret
                          /\ rewind.lli.current = ch[1]
                          /\ rewind.lli.list = theCursor.list
                          /\ ff.ret
                          /\ ff.lli.current = ch[Len(ch)]
                          /\ ff.lli.list = theCursor.list)
  /\ [][listRet'.op \in {"iter_rewind", "iter_fast_forward",
                         "iter_rewind_null", "iter_fast_forward_null"}
          => /\ theList' = theList
             /\ listRet'.ret = (/\ listRet'.op \in {"iter_rewind",
                                                    "iter_fast_forward"}
                                /\ Chain(theList) # <<>>)
             /\ listRet'.ret => LLIterator_is_valid(theCursor')]_vars

\* a rewind has put the cursor on the head of a list of three
C23_Witness ==
  /\ listRet.op = "iter_rewind"
  /\ listRet.ret
  /\ Len(Chain(theList)) = 3
  /\ theCursor # NULL_ITER
  /\ theCursor.current = Chain(theList)[1]
  /\ theCursor.current # Chain(theList)[3]

\* C24: the number of buckets is the one fixed at allocation (8) in every
\* reachable state, and every entry of bucket i carries the hash of its
\* stored key bytes, with hash mod bucket count = i.
C24_BucketOfHash ==
  /\ [](~undef =>
          /\ table.num_buckets = DEFAULT_BUCKETS
          /\ table.num_buckets = 8
          /\ DOMAIN table.buckets = 0..(table.num_buckets - 1)
          /\ \A b \in DOMAIN table.buckets :
               LET ps == Payloads(table.buckets[b])
               IN  \A i \in 1..Len(ps) :
                     /\ Len(ps[i].key) = ps[i].key_len
                     /\ ps[i].hash = FNV1a_64bit(ps[i].key, ps[i].key_len)
                     /\ Mod64(ps[i].hash, table.num_buckets) = b)
  /\ [][table'.num_buckets = table.num_buckets]_vars

\* three entries, in two buckets
C24_Witness ==
  /\ ~undef
  /\ HashTable_num_elements(table) = 3
  /\ LinkedList_num_elements(table.buckets[5]) = 1
  /\ LinkedList_num_elements(table.buckets[7]) = 2

\* C25: in every state that HTIterator_allocate, HTIterator_next,
\* HTIterator_get and HTIterator_remove reach on one iterator,
\* HTIterator_is_valid returns true exactly when HTIterator_get succeeds,
\* which is exactly when the inner list cursor exists and designates a live
\* entry of the current bucket.
C25_ValidIffGetSucceeds ==
  tableIter # NULL_HTI =>
    LET valid == HTIterator_is_valid(tableIter, table)
        live  == Designates(tableIter) /\ ~Dangling(tableIter, table)
    IN  /\ ~valid.ub
        /\ valid.ret = live
        /\ HTIterator_get(tableIter, table).ret = live
        /\ live => tableIter.bucket_iter.list = tableIter.bucket_idx

\* C26: on a table with one or more entries HTIterator_allocate ends and
\* returns a valid iterator whose bucket index is the lowest index of a
\* bucket that is not empty and whose inner cursor is on the head of that
\* bucket; its scan never indexes buckets[] at or beyond the bucket count.
C26_AllocateFindsFirstBucket ==
  (~undef /\ HashTable_num_elements(table) >= 1) =>
    LET a        == HTIterator_allocate(table)
        nonempty == {b \in DOMAIN table.buckets :
                       Chain(table.buckets[b]) # <<>>}
        lowest   == CHOOSE b \in nonempty : \A c \in nonempty : b <= c
        valid    == HTIterator_is_valid(a.hti, table)
    IN  /\ nonempty # {}
        /\ ~a.fault
        /\ a.hti # NULL_HTI
        /\ a.hti.bucket_idx = lowest
        /\ a.hti.bucket_idx < table.num_buckets
        /\ a.hti.bucket_iter
             = [list |-> lowest, current |-> Chain(table.buckets[lowest])[1]]
        /\ valid.ret /\ ~valid.ub
        /\ HTIterator_get(a.hti, table).key_out
             = Payloads(table.buckets[lowest])[1].key

\* an allocation has scanned over the empty buckets 0..4, with bucket 7
\* holding entries too
C26_Witness ==
  /\ ~undef
  /\ ret.op = "iter_allocate"
  /\ tableIter # NULL_HTI
  /\ HashTable_num_elements(table) = 3
  /\ tableIter.bucket_idx = 5
  /\ LLIterator_is_valid(tableIter.bucket_iter)
  /\ LinkedList_num_elements(table.buckets[7]) = 2

\* C27: whatever mix of HTIterator_next and HTIterator_remove calls is made
\* on one iterator, from its allocation on a table with entries until it is
\* invalid, every entry the table held is designated exactly once; afterwards
\* the entries HTIterator_remove was called on are gone and no other, and
\* every entry passed with HTIterator_next is still there with its value.
C27_NextAndRemoveInterleaved ==
  (~undef /\ HashTable_num_elements(table) >= 1) =>
    LET contents == Contents(table)
        steps    == 1..(HashTable_num_elements(table) + 1)
    IN  \A removes \in [steps -> BOOLEAN] : \A past_end \in PastEnd :
          LET t    == next_or_remove(table, removes, past_end)
              seen == t.seen
          IN  /\ ~t.ub
              /\ t.ended
              /\ Len(seen) = Cardinality(contents)
              /\ \A i, j \in 1..Len(seen) : i # j => seen[i].key # seen[j].key
              /\ {<<seen[i].key, seen[i].value>> : i \in 1..Len(seen)}
                   = contents
              /\ Contents(t.ht)
                   = {<<seen[i].key, seen[i].value>> :
                        i \in {j \in 1..Len(seen) : ~seen[j].removed}}
              /\ HashTable_num_elements(t.ht)
                   = Cardinality({j \in 1..Len(seen) : ~seen[j].removed})

\* C28: while an iterator allocated on a table with entries lives, its
\* bucket index never decreases and stays within 0 .. bucket count - 1;
\* HTIterator_next steps along the chain of the current bucket and goes to
\* the next bucket that is not empty only from the chain's last node; when
\* there is no such bucket it returns false and the iterator is invalid
\* from then on: HTIterator_next, HTIterator_get and HTIterator_remove
\* return false.
C28_IteratorState ==
  (~undef /\ tableIter # NULL_HTI /\ tableIter.table # INDETERMINATE) =>
    LET next    == HTIterator_next(tableIter, table)
        refused(hti) ==
          /\ HTIterator_next(hti, table)
               = [hti |-> hti, ret |-> FALSE, ub |-> FALSE]
          /\ HTIterator_get(hti, table) = [ret |-> FALSE, ub |-> FALSE]
          /\ HTIterator_remove(hti, table, NULL_PTR)
               = [hti |-> hti, ht |-> table, ret |-> FALSE, ub |-> FALSE,
                  wrote |-> FALSE]
          /\ HTIterator_is_valid(hti, table) = [ret |-> FALSE, ub |-> FALSE]
    IN  /\ tableIter.bucket_idx \in 0..(table.num_buckets - 1)
        /\ IF ~HTIterator_is_valid(tableIter, table).ret
           THEN refused(tableIter)
           ELSE
             LET b     == tableIter.bucket_idx
                 ch    == Chain(table.buckets[b])
                 i     == PositionIn(ch, tableIter.bucket_iter.current)
                 later == {c \in DOMAIN table.buckets :
                             c > b /\ Chain(table.buckets[c]) # <<>>}
                 first == CHOOSE c \in later : \A d \in later : c <= d
             IN  /\ tableIter.bucket_iter.list = b
                 /\ ch[i] = tableIter.bucket_iter.current
                 /\ IF i < Len(ch) THEN
                      /\ next.ret
                      /\ next.hti.bucket_idx = b
                      /\ next.hti.bucket_iter
                           = [list |-> b, current |-> ch[i + 1]]
                    ELSE IF later # {} THEN
                      /\ next.ret
                      /\ next.hti.bucket_idx = first
                      /\ next.hti.bucket_iter
                           = [list |-> first,
                              current |-> Chain(table.buckets[first])[1]]
                    ELSE
                      /\ ~next.ret
                      /\ next.hti.bucket_iter = NULL_ITER
                      /\ next.hti.bucket_idx \in b..(table.num_buckets - 1)
                      /\ refused(next.hti)

C28_IteratorLifetime ==
  /\ []C28_IteratorState
  /\ [][(/\ tableIter # NULL_HTI
         /\ tableIter' # NULL_HTI
         /\ tableIter.table # INDETERMINATE)
          => /\ tableIter'.bucket_idx >= tableIter.bucket_idx
             /\ tableIter'.bucket_idx < table'.num_buckets
             /\ ~HTIterator_is_valid(tableIter, table).ret
                  => ~HTIterator_is_valid(tableIter', table').ret]_vars

\* HTIterator_next has just gone from the last node of bucket 5 to the head
\* of bucket 7
C28_Witness ==
  /\ ~undef
  /\ ret.op = "iter_next"
  /\ ret.rv
  /\ tableIter # NULL_HTI
  /\ LinkedList_num_elements(table.buckets[5]) = 1
  /\ LinkedList_num_elements(table.buckets[7]) = 2
  /\ tableIter.bucket_idx = 7
  /\ tableIter.bucket_iter.current = table.buckets[7].head

C31_ListIsSequence ==
  /\ [](LET xs == Payloads(theList)
            n  == Len(xs)
        IN  /\ forward_iteration(theList) = xs
            /\ \A payload \in Values :
                 /\ LinkedList_prepend(theList, payload).ret
                 /\ Payloads(LinkedList_prepend(theList, payload).list)
                      = <<payload>> \o xs
                 /\ LinkedList_append(theList, payload).ret
                 /\ Payloads(LinkedList_append(theList, payload).list)
                      = xs \o <<payload>>
            /\ n >= 1 =>
                 LET head == LinkedList_pop_head(theList, TRUE)
                     tail == LinkedList_pop_tail(theList, TRUE)
                 IN  /\ head.ret /\ head.wrote /\ head.out = xs[1]
                     /\ Payloads(head.list) = SubSeq(xs, 2, n)
                     /\ tail.ret /\ tail.wrote /\ tail.out = xs[n]
                     /\ Payloads(tail.list) = SubSeq(xs, 1, n - 1))
  /\ [][LET xs  == Payloads(theList)
            xs2 == Payloads(theList')
            op  == listRet'.op
        IN  /\ (op = "prepend" /\ listRet'.ret)
                 => Len(xs2) = Len(xs) + 1 /\ Tail(xs2) = xs
            /\ (op = "append" /\ listRet'.ret)
                 => Len(xs2) = Len(xs) + 1 /\ SubSeq(xs2, 1, Len(xs)) = xs
            /\ (op = "pop_head" /\ listRet'.ret)
                 => listRet'.out = Head(xs) /\ xs2 = Tail(xs)
            /\ (op = "pop_tail" /\ listRet'.ret)
                 => /\ listRet'.out = xs[Len(xs)]
                    /\ xs2 = SubSeq(xs, 1, Len(xs) - 1)]_vars

\* pop_tail has just taken the 1 off the end of 2, 1, 1
C31_Witness ==
  /\ listRet.op = "pop_tail"
  /\ listRet.ret
  /\ listRet.out = 1
  /\ Payloads(theList) = <<2, 1>>
  /\ forward_iteration(theList) = <<2, 1>>

\* C32: HashTable_remove given a null old_value reports failure and leaves
\* the table as it was, whether the key is present or not, and never stores
\* through the null pointer.
C32_RemoveNullOldValue ==
  ~undef =>
    \A k \in Keys \cup {<<255>>} : \A key_len \in KeyLens(k) :
      LET r == HashTable_remove(table, CString(k), key_len, FALSE)
      IN  /\ ~r.fault
          /\ ~r.ret
          /\ ~r.wrote
          /\ r.ht = table

\* the recurrence h := ((h XOR byte) * 0x00000100000001B3) mod 2^64 from
\* 0xcbf29ce484222325, unfolded from the last byte back
RECURSIVE C33_Recurrence(_)
C33_Recurrence(bytes) ==
  IF bytes = <<>> THEN <<37, 35, 34, 132, 228, 156, 242, 203>>
  ELSE Mul64(Xor64Byte(C33_Recurrence(SubSeq(bytes, 1, Len(bytes) - 1)),
                       bytes[Len(bytes)]),
             <<179, 1, 0, 0, 0, 1, 0, 0>>)

\* C33: the hash of a key is 64-bit FNV-1a of its bytes: the offset basis
\* 0xcbf29ce484222325 for the zero-length key and one xor-then-multiply step
\* by 0x00000100000001B3 modulo 2^64 for each byte in order; it depends on
\* the key bytes and the length only, so the hash kept in every stored entry
\* is that of the entry's key and what follows the key in the caller's
\* buffer does not matter.
C33_HashIsFNV1a ==
  /\ \A d \in HashDomain :
       /\ FNV1a_64bit(d, Len(d)) = C33_Recurrence(d)
       /\ \A n \in 0..Len(d) :
            FNV1a_64bit(d, n) = FNV1a_64bit(SubSeq(d, 1, n) \o <<0>>, n)
  /\ FNV1a_64bit(<<0>>, 0) = FNV_INIT
  \* 0xaf63e54c8601fbd7 and 0x08ba5607b55eb48f
  /\ FNV1a_64bit(<<104, 0>>, 1) = <<215, 251, 1, 134, 76, 229, 99, 175>>
  /\ FNV1a_64bit(<<104, 98, 0>>, 2) = <<143, 180, 94, 181, 7, 86, 186, 8>>
  /\ ~undef =>
       /\ \A p \in EntriesOf(table) :
            EntryAt(table, p).hash = C33_Recurrence(EntryAt(table, p).key)
       /\ \A k \in Keys : \A key_len \in KeyLens(k) :
            LET found == HashTable_find(table, CString(k), key_len)
            IN  found # NULL_PTR =>
                  table.buckets[found.bucket].node[found.node].payload.hash
                    = C33_Recurrence(KeyBytes(k, key_len))

\* entries of the zero-length, a one-byte and a two-byte key are stored
C33_Witness ==
  /\ ~undef
  /\ ret.op = "insert"
  /\ PresentKeys(table) = {<<>>, <<104>>, <<104, 98>>}

C35_IterAllocate ==
  /\ [](LET lli == LLIterator_allocate("theList", theList)
        IN  /\ lli # NULL_ITER
            /\ theList.num_elems > 0 =>
                 /\ LLIterator_is_valid(lli)
                 /\ LLIterator_get(lli) = theList.head
                 /\ theList.node[LLIterator_get(lli)].payload
                      = Payloads(theList)[1]
            /\ theList.num_elems = 0 =>
                 /\ ~LLIterator_is_valid(lli)
                 /\ LLIterator_get(lli) = NULL
            /\ LLIterator_allocate("theList", NULL_LIST) = NULL_ITER)
  /\ [][/\ listRet'.op = "iter_allocate" =>
             /\ theList' = theList
             /\ theCursor' = LLIterator_allocate("theList", theList)
             /\ theCursor'.current = theList.head
        /\ listRet'.op = "iter_allocate_null" =>
             /\ theList' = theList
             /\ listRet'.ret = NULL_ITER]_vars

\* a cursor was just allocated on a list of two nodes and is on the head
C35_Witness ==
  /\ listRet.op = "iter_allocate"
  /\ theList.num_elems = 2
  /\ LLIterator_is_valid(theCursor)
  /\ theCursor.current = theList.head
  /\ theCursor.current # theList.tail

\* The options a command line gives before its files: each argument that
\* starts with "-", up to "-", "--" or the first file, as process_option
\* reads it.  `ok` tells that every one of them was accepted, `in_range`
\* that every port given is a uint16_t, `stop` is where the options end.
RECURSIVE C36_OptionsGiven(_, _, _)
C36_OptionsGiven(argv, idx, given) ==
  IF idx >= Len(argv) THEN [given EXCEPT !.stop = idx]
  ELSE IF argv[idx + 1][1] # "-" \/ Len(argv[idx + 1]) = 1
  THEN [given EXCEPT !.stop = idx]
  ELSE IF argv[idx + 1] = <<"-", "-">> THEN [given EXCEPT !.stop = idx + 1]
  ELSE
    LET o == process_option(Len(argv), argv, idx)
    IN  IF o.res # "OPT_OK" THEN [given EXCEPT !.ok = FALSE, !.stop = idx]
        ELSE C36_OptionsGiven(argv, o.next_idx,
               [given EXCEPT
                  !.options = @ \o o.options,
                  !.in_range = @ /\ (o.info = NULL_PTR
                                       \/ o.info.numeric \in 0..UINT16_MAX)])

C36_Given ==
  C36_OptionsGiven(proc.argv, 1,
                   [ok |-> TRUE, options |-> <<>>, in_range |-> TRUE,
                    stop |-> 1])

\* the version option with another option, or some option twice
C36_Conflicting(options) ==
  \/ /\ \E i \in 1..Len(options) : valid_options[options[i]].id = OPT_VERSION
     /\ \E i \in 1..Len(options) : valid_options[options[i]].id # OPT_VERSION
  \/ \E i, j \in 1..Len(options) :
       /\ i # j
       /\ options[i] = options[j]
       /\ valid_options[options[i]].unique

C36_VersionAlone ==
  LET given == C36_Given
  IN  /\ given.ok
      /\ given.options = <<get_opt_by_id(OPT_VERSION)>>
      /\ given.stop = Len(proc.argv)
      => /\ proc.res = "ARGS_NO_FILES"
         /\ proc.state.version_info_requested

RECURSIVE C37_BackFrom(_, _, _)
C37_BackFrom(list, n, fuel) ==
  IF n = NULL \/ fuel = 0 \/ n \notin DOMAIN list.node THEN <<>>
  ELSE <<n>> \o C37_BackFrom(list, list.node[n].prev, fuel - 1)

C37_Reverse(s) == [i \in 1..Len(s) |-> s[Len(s) + 1 - i]]

\* C37: in every state that prepend, append, pop_head, pop_tail and
\* LLIterator_remove reach, the list is empty iff head and tail are both
\* null; otherwise head.prev and tail.next are null, n.next.prev = n for
\* every node n with a successor, and the walk along prev from the tail
\* meets the nodes of the walk along next from the head, in reverse order.
C37_LinksWellFormed ==
  LET forward  == Chain(theList)
      backward == C37_BackFrom(theList, theList.tail,
                               Cardinality(DOMAIN theList.node) + 1)
  IN  /\ theList.num_elems = 0 <=>
           theList.head = NULL /\ theList.tail = NULL
      /\ theList.head = NULL <=> theList.tail = NULL
      /\ theList.num_elems > 0 =>
           /\ theList.head \in DOMAIN theList.node
           /\ theList.tail \in DOMAIN theList.node
           /\ theList.node[theList.head].prev = NULL
           /\ theList.node[theList.tail].next = NULL
      /\ \A n \in DOMAIN theList.node :
           theList.node[n].next # NULL =>
             /\ theList.node[n].next \in DOMAIN theList.node
             /\ theList.node[theList.node[n].next].prev = n
      /\ backward = C37_Reverse(forward)
      /\ Len(forward) = theList.num_elems
      /\ {forward[i] : i \in 1..Len(forward)} = DOMAIN theList.node

\* a node was just removed through the cursor, leaving two nodes that are
\* linked to each other, the cursor on the tail
C37_Witness ==
  /\ listRet.op = "iter_remove"
  /\ listRet.ret
  /\ theList.num_elems = 2
  /\ theCursor.current = theList.tail
  /\ theList.node[theList.head].next = theList.tail
  /\ theList.node[theList.tail].prev = theList.head

\* C38: whatever table an iterator is allocated on, a table with no entries
\* included, HTIterator_allocate has assigned every field of it that
\* HTIterator_is_valid, HTIterator_next, HTIterator_get or HTIterator_remove
\* read: none of the four reads an indeterminate table, bucket_iter or
\* bucket_idx.
C38_IteratorFieldsInitialised ==
  ~undef =>
    LET hti == HTIterator_allocate(table).hti
    IN  /\ hti.bucket_iter # INDETERMINATE
        /\ ~HTIterator_is_valid(hti, table).ub
        /\ ~HTIterator_next(hti, table).ub
        /\ ~HTIterator_get(hti, table).ub
        /\ \A past_end \in PastEnd : ~HTIterator_remove(hti, table, past_end).ub
        /\ hti.table # INDETERMINATE

\* C39: every list cursor that HashTable_insert, HashTable_find,
\* HashTable_remove, HTIterator_allocate and HTIterator_next allocate is
\* freed before the call returns or is the iterator's inner cursor, which
\* HTIterator_free or a later HTIterator_next releases: no call leaves a
\* cursor that nothing points to, so nothing stays allocated once the
\* iterators and the table are freed.
C39_NoCursorLost ==
  ~undef =>
    /\ \A k \in Keys :
         /\ CursorsLost(HashTable_insert_cursors(table, CString(k))) = 0
         /\ CursorsLost(HashTable_find_cursors(table, CString(k))) = 0
         /\ CursorsLost(HashTable_remove_cursors(table, CString(k))) = 0
    /\ CursorsLost(HTIterator_allocate_cursors(table)) = 0
    /\ (tableIter # NULL_HTI /\ ~Dangling(tableIter, table)) =>
         /\ CursorsLost(HTIterator_next_cursors(tableIter, table)) = 0
         /\ CursorsLost(HTIterator_free_cursors(tableIter)) = 0

\* C40: whenever process_args returns, for any argc >= 1 (a command line of
\* "--" alone and one whose first argument is a file included), it has
\* written *error (NULL or a string that is the caller's), *state is NULL or
\* a live State and *files is NULL unless the result is ARGS_OK, so that
\* main's free(error), free_state(state) and free_config_files(files) are
\* all defined.
C40_OutputsWritten ==
  /\ proc.pc = "returned" =>
       /\ proc.error # INDETERMINATE
       /\ proc.state # INDETERMINATE
       /\ proc.files # INDETERMINATE
       /\ proc.res # "ARGS_OK" => proc.files = NULL_PTR
       /\ proc.res = "ARGS_OK" => proc.files # NULL_PTR /\ proc.error = NULL_PTR
  /\ proc.pc = "exited" => ~proc.ub

=============================================================================
